---------------------------- MODULE Spec2Model ----------------------------
(***************************************************************************)
(* Model of lily_of_the_valley::html_extract_text                          *)
(* (src/src/import/html_extract_text.cpp): the HTML-to-text extraction     *)
(* engine, its raw-text decoder and its tag locators.                      *)
(*                                                                         *)
(* Characters are wchar_t code points (integers).  A buffer is a sequence  *)
(* of code points followed by an implicit NUL; a pointer into a buffer is  *)
(* the 0-based offset of the character it points at, and the null pointer  *)
(* is NULLP.                                                               *)
(***************************************************************************)
EXTENDS Integers, Sequences, FiniteSets, TLC

(***************************************************************************)
(* Characters                                                              *)
(***************************************************************************)
NUL == 0
NULLP == 0 - 1

\* The code points of the characters that the documents of the model use.
Alphabet ==
  <<"\t", "\n", "\f", "\r", " ", "!", "\"", "#", "$", "%", "&", "'", "(", ")",
    "-", ".", "/", "0", "1", "2", "3", "4", "5", "6", "7", "8", "9",
    ":", ";", "<", "=", ">", "?", "A", "B", "C", "D", "E", "F", "G", "H",
    "I", "L", "M", "P", "R", "S", "T", "X", "[", "]", "a", "b", "c", "d",
    "e", "f", "g", "h", "i", "j", "k", "l", "m", "n", "o", "p", "q",
    "r", "s", "t", "u", "v", "w", "x", "y", "z", "{", "}">>

CodePoints ==
  <<9, 10, 12, 13, 32, 33, 34, 35, 36, 37, 38, 39, 40, 41,
    45, 46, 47, 48, 49, 50, 51, 52, 53, 54, 55, 56, 57,
    58, 59, 60, 61, 62, 63, 65, 66, 67, 68, 69, 70, 71, 72,
    73, 76, 77, 80, 82, 83, 84, 88, 91, 93, 97, 98, 99, 100,
    101, 102, 103, 104, 105, 106, 107, 108, 109, 110, 111, 112, 113,
    114, 115, 116, 117, 118, 119, 120, 121, 122, 123, 125>>

Code ==
  [c \in {Alphabet[i] : i \in DOMAIN Alphabet} |->
     CodePoints[CHOOSE i \in DOMAIN Alphabet : Alphabet[i] = c]]

\* F(x), with x evaluated once however often F refers to it.
Once(F(_), x) == CHOOSE r \in {F(y) : y \in {x}} : TRUE

\* The wide string whose characters are the one-character strings of s.
W(s) == [i \in 1..Len(s) |-> Code[s[i]]]

iswspace(c) == c \in {9, 10, 11, 12, 13, 32}
towlower(c) == IF c \in 65..90 THEN c + 32 ELSE c
is_either(c, a, b) == c = a \/ c = b
ToLower(s) == Once(LAMBDA t : [i \in 1..Len(t) |-> towlower(t[i])], s)

(***************************************************************************)
(* Buffers and the C library scans the engine uses                         *)
(***************************************************************************)
\* *(s + p): the character at offset p, NUL at the terminator.
At(s, p) == IF p >= 0 /\ p < Len(s) THEN s[p + 1] ELSE NUL

\* std::wstring(s + p, n)
Slice(s, p, n) == [i \in 1..n |-> At(s, p + i - 1)]

\* The rest of the buffer from offset p, as a NUL-terminated string of its own.
From(s, p) == IF p >= Len(s) THEN << >> ELSE SubSeq(s, p + 1, Len(s))

\* The first and the last of a set of offsets that is not empty.
First(S) == Once(LAMBDA T : CHOOSE i \in T : \A j \in T : i <= j, S)
Last(S) == Once(LAMBDA T : CHOOSE i \in T : \A j \in T : j <= i, S)
FirstOr(S, none) == Once(LAMBDA T : IF T = {} THEN none ELSE First(T), S)
Smaller(a, b) == IF a < b THEN a ELSE b
Greater(a, b) == IF a > b THEN a ELSE b

wcschr(s, p, c) == FirstOr({i \in p..(Len(s) - 1) : s[i + 1] = c}, NULLP)

StartsWith(s, p, lit) ==
  Once(LAMBDA a : \A i \in 1..Len(a[2]) : At(s, a[1] + i - 1) = a[2][i],
       <<p, lit>>)
StartsWithI(s, p, lit) ==
  Once(LAMBDA a : \A i \in 1..Len(a[2]) :
                    towlower(At(s, a[1] + i - 1)) = towlower(a[2][i]),
       <<p, lit>>)

wcsstr(s, p, lit) ==
  Once(LAMBDA a : FirstOr({i \in a[1]..(Len(s) - 1) : StartsWith(s, i, a[2])},
                          NULLP),
       <<p, lit>>)

stristr(s, p, lit) ==
  Once(LAMBDA a : FirstOr({i \in a[1]..(Len(s) - 1) : StartsWithI(s, i, a[2])},
                          NULLP),
       <<p, lit>>)

\* string_util::strnicmp(s + p, lit, n) == 0; a null first argument never
\* compares equal.
strnicmp_eq(s, p, lit, n) ==
  Once(LAMBDA q : q # NULLP /\ StartsWithI(s, q, SubSeq(lit, 1, n)), p)

\* string_util::stricmp(s, lit) == 0 on two whole strings.
stricmp_eq(s, lit) == ToLower(s) = ToLower(lit)

\* string_util::strncspn(s + p, n, set): the number of characters of the
\* first n that precede the first one in set (n when there is none).
strncspn(s, p, n, set) ==
  FirstOr({i \in 0..Smaller(n - 1, Greater(Len(s) - p, 0)) :
             At(s, p + i) \in set \/ At(s, p + i) = NUL}, n)

\* string_util::strcspn_pointer(s + p, set): the first character in set, null
\* when the terminator comes first.
strcspn_pointer(s, p, set) ==
  FirstOr({i \in p..(Len(s) - 1) : s[i + 1] \in set}, NULLP)

\* string_util::strnchr(s + p, c, n): the first c among the n characters from
\* s + p, null when there is none or the terminator comes first.
strnchr(s, p, c, n) ==
  FirstOr({i \in p..Smaller(p + n - 1, Len(s) - 1) : s[i + 1] = c}, NULLP)

(***************************************************************************)
(* Entity table, superscripts and subscripts, symbol font                  *)
(***************************************************************************)
\* html_entity_table::m_table, restricted to the names the documents of the
\* model use.
HTML_TABLE ==
  (W(<<"a","p","o","s">>) :> 39) @@ (W(<<"g","t">>) :> 62)
  @@ (W(<<"l","t">>) :> 60) @@ (W(<<"a","m","p">>) :> 38)
  @@ (W(<<"q","u","o","t">>) :> 34) @@ (W(<<"n","b","s","p">>) :> 32)
  @@ (W(<<"c","o","p","y">>) :> 169) @@ (W(<<"s","h","y">>) :> 173)
  @@ (W(<<"p","i">>) :> 960) @@ (W(<<"l","e">>) :> 8804)
  @@ (W(<<"d","a","g","g","e","r">>) :> 8224)
  @@ (W(<<"D","a","g","g","e","r">>) :> 8225)

\* html_entity_table::find
html_entity_table_find_lowered(cmpKey) ==
  IF ToLower(cmpKey) \in DOMAIN HTML_TABLE THEN HTML_TABLE[ToLower(cmpKey)]
  ELSE 63

html_entity_table_find(cmpKey) ==
  IF cmpKey \in DOMAIN HTML_TABLE THEN HTML_TABLE[cmpKey]
  ELSE IF ToLower(cmpKey) \in DOMAIN HTML_TABLE THEN HTML_TABLE[ToLower(cmpKey)]
  ELSE 63

\* symbol_font_table::find, restricted to the Latin letters a, b, g, d and
\* their capitals (the table of the source has some 180 entries).
symbol_font_table_find(letter) ==
  CASE letter = 65 -> 913 [] letter = 66 -> 914 [] letter = 71 -> 915
    [] letter = 68 -> 916 [] letter = 97 -> 945 [] letter = 98 -> 946
    [] letter = 103 -> 947 [] letter = 100 -> 948
    [] OTHER -> letter

\* string_util::to_superscript and to_subscript on the digits.
to_superscript(c) ==
  CASE c = 48 -> 8304 [] c = 49 -> 185 [] c = 50 -> 178 [] c = 51 -> 179
    [] c \in 52..57 -> 8308 + (c - 52)
    [] OTHER -> c
to_subscript(c) == IF c \in 48..57 THEN 8320 + (c - 48) ELSE c

IsDigit(c) == c \in 48..57
HexValue(c) ==
  IF c \in 48..57 THEN c - 48
  ELSE IF c \in 97..102 THEN c - 87
  ELSE IF c \in 65..70 THEN c - 55
  ELSE NULLP

\* string_util::atoi(s + p): the leading decimal digits, 0 when there is none.
RECURSIVE atoi_from(_, _, _)
atoi_from(s, p, acc) ==
  IF IsDigit(At(s, p)) THEN atoi_from(s, p + 1, acc * 10 + (At(s, p) - 48))
  ELSE acc
atoi(s, p) == atoi_from(s, p, 0)

\* string_util::axtoi(s + p, length): the leading hexadecimal digits among the
\* first length characters.
RECURSIVE axtoi_from(_, _, _, _)
axtoi_from(s, p, length, acc) ==
  IF length > 0 /\ HexValue(At(s, p)) # NULLP
  THEN axtoi_from(s, p + 1, length - 1, acc * 16 + HexValue(At(s, p)))
  ELSE acc
axtoi(s, p, length) == axtoi_from(s, p, length, 0)

(***************************************************************************)
(* The output buffer and the log of the engine record e                    *)
(***************************************************************************)
add_character(e, c) == [e EXCEPT !.text = Append(@, c)]
add_characters(e, s, p, n) == [e EXCEPT !.text = @ \o Slice(s, p, n)]
add_string(e, str) == [e EXCEPT !.text = @ \o str]
log_message(e, kind, str) ==
  [e EXCEPT !.log = Append(@, [kind |-> kind, text |-> str])]

(***************************************************************************)
(* html_extract_text::parse_raw_text                                       *)
(***************************************************************************)
\* Lines 330-343 and 362-375: the literal characters, transliterated while a
\* sup or sub element is open.
add_literal(e, s, p, n) ==
  IF e.sup > 0
  THEN [e EXCEPT !.text = @ \o [i \in 1..n |-> to_superscript(At(s, p + i - 1))]]
  ELSE IF e.sub > 0
  THEN [e EXCEPT !.text = @ \o [i \in 1..n |-> to_subscript(At(s, p + i - 1))]]
  ELSE add_characters(e, s, p, n)

\* "update indices into the raw HTML text": the decoder moves k characters on.
RawAdvance(e, t, n, k) ==
  [e |-> e, t |-> t + k, n |-> IF k > n THEN 0 ELSE n - k]

\* Lines 173-221: &#N; and &#xH;
raw_numeric_dropping_zero(e, s, t, n, index, semicolon) ==
  LET value == IF is_either(At(s, t + index + 2), 120, 88)
               THEN axtoi(s, t + index + 3,
                          IF n >= index + 3 THEN n - (index + 3) ELSE Len(s))
               ELSE atoi(s, t + index + 2)
  IN IF value = 173 \/ value = 0 THEN e ELSE add_character(e, value)

raw_numeric(e, s, t, n, index, semicolon) ==
  LET value == IF is_either(At(s, t + index + 2), 120, 88)
               THEN axtoi(s, t + index + 3,
                          IF n >= index + 3 THEN n - (index + 3) ELSE Len(s))
               ELSE atoi(s, t + index + 2)
  IN IF value = 173 THEN e
     ELSE IF value >= 64256 /\ value <= 64262 THEN
       add_string(e, CASE value = 64256 -> <<102, 102>>
                       [] value = 64257 -> <<102, 105>>
                       [] value = 64258 -> <<102, 108>>
                       [] value = 64259 -> <<102, 102, 105>>
                       [] value = 64260 -> <<102, 102, 108>>
                       [] value = 64261 -> <<102, 116>>
                       [] value = 64262 -> <<115, 116>>)
     ELSE IF value # 0 THEN add_character(e, value)
     ELSE add_characters(
            log_message(e, "Invalid numeric HTML entity",
                        Slice(s, t + index, (semicolon + 1) - (t + index))),
            s, t + index, (semicolon + 1) - (t + index))

\* Lines 243-246: the scan for the terminator of a doubly encoded entity.
nextTerminatorFrom(s, p, limit) ==
  FirstOr({q \in p..(Smaller(limit, Len(s)) - 1) :
             iswspace(At(s, q)) \/ At(s, q) = 59},
          Greater(p, limit))

\* Lines 263-264: an unknown entity is logged.
raw_named_unknown(e1, s, t, index, semicolon, value) ==
  IF value = 63
  THEN log_message(e1, "Unknown HTML entity",
                   Slice(s, t + index, semicolon - (t + index)))
  ELSE e1

\* The terminator is logged and left out of the output.
raw_named_terminator_dropped(e2, s, t, index, semicolon) ==
  IF At(s, semicolon) # 59
  THEN log_message(e2, "Missing semicolon on HTML entity",
                   Slice(s, t + index, semicolon - (t + index)))
  ELSE e2

\* Lines 268-272: a terminator other than the semicolon is logged and copied
\* over.
raw_named_terminator(e2, s, t, index, semicolon) ==
  IF At(s, semicolon) # 59
  THEN add_character(
         log_message(e2, "Missing semicolon on HTML entity",
                     Slice(s, t + index, semicolon - (t + index))),
         At(s, semicolon))
  ELSE e2

\* Lines 237-273: the entity is known or has its semicolon; value is the
\* character of the table, badlyEncodedEntity the one of the name that follows
\* up to nextTerminator.
raw_named_add(e, s, t, n, index, semicolon, value, nextTerminator, badlyEncodedEntity) ==
  IF At(s, semicolon) = 59 /\ value = 38
     /\ nextTerminator < t + n /\ At(s, nextTerminator) = 59
     /\ badlyEncodedEntity # 63
  THEN [e |-> add_character(
                log_message(e, "Ampersand incorrectly encoded in HTML entity",
                            Slice(s, t + index, (nextTerminator - (t + index)) + 1)),
                badlyEncodedEntity),
        semicolon |-> nextTerminator]
  ELSE [e |-> raw_named_terminator(
                raw_named_unknown(add_character(e, value), s, t, index,
                                  semicolon, value),
                s, t, index, semicolon),
        semicolon |-> semicolon]

\* Lines 225-275: a named entity whose character is value.  The result carries
\* the position of the terminator, which the doubly encoded case moves.
raw_named_value(e, s, t, n, index, semicolon, value, nextTerminator) ==
  IF value = 173 THEN [e |-> e, semicolon |-> semicolon]
  ELSE IF value = 63 /\ At(s, semicolon) # 59 THEN
    [e |-> add_characters(
             log_message(e, "Unencoded ampersand or unknown HTML entity",
                         Slice(s, t + index, semicolon - (t + index))),
             s, t + index, (semicolon - (t + index)) + 1),
     semicolon |-> semicolon]
  ELSE raw_named_add(e, s, t, n, index, semicolon, value, nextTerminator,
                     html_entity_table_find(
                       Slice(s, semicolon + 1, nextTerminator - (semicolon + 1))))

\* Lines 223-276: a named entity.
raw_named(e, s, t, n, index, semicolon) ==
  Once(LAMBDA value :
         raw_named_value(e, s, t, n, index, semicolon, value,
                         nextTerminatorFrom(s, semicolon + 1, t + n)),
       html_entity_table_find(
         Slice(s, t + index + 1, semicolon - (t + index + 1))))

\* Lines 277-283: the decoder moves past the terminator of the entity.
raw_entity_advance(r, t, n) ==
  Once(LAMBDA r1 : RawAdvance(r1.e, t, n, (r1.semicolon + 1) - t), r)

\* Lines 138-285: the decoder is on an ampersand; e1 is the engine with the
\* text before the ampersand copied over.
raw_ampersand_at(e, e1, s, t, n, index, semicolon) ==
  IF semicolon = NULLP \/ semicolon > t + n
  THEN RawAdvance(IF index > 0 THEN add_character(e1, 38) ELSE e,
                  t, n, index + 1)
  ELSE raw_entity_advance(
         IF iswspace(At(s, t + index + 1))
         THEN [e |-> add_character(add_character(e1, 38), 32),
               semicolon |-> semicolon]
         ELSE IF At(s, t + index + 1) = 35
         THEN [e |-> raw_numeric(e1, s, t, n, index, semicolon),
               semicolon |-> semicolon]
         ELSE raw_named(e1, s, t, n, index, semicolon),
         t, n)

raw_ampersand(e, s, t, n, index) ==
  Once(LAMBDA semicolon :
         raw_ampersand_at(e, IF index > 0 THEN add_characters(e, s, t, index)
                             ELSE e,
                          s, t, n, index, semicolon),
       strcspn_pointer(s, t + index + 1, {59, 60, 32, 9, 10, 13}))

\* Lines 287-326: the decoder is on a dollar sign.
raw_dollar_at(e1, s, t, n, index, closingBrace) ==
  IF closingBrace = NULLP \/ closingBrace > t + n
  THEN RawAdvance(add_character(e1, 36), t, n, index + 1)
  ELSE RawAdvance(e1, t, n, (closingBrace + 1) - t)

raw_dollar(e, s, t, n, index) ==
  raw_dollar_at(IF index > 0 THEN add_characters(e, s, t, index) ELSE e,
                s, t, n, index,
                IF index + 1 < n /\ At(s, t + index + 1) = 123
                THEN strnchr(s, t + 1, 125, n)
                ELSE NULLP)

\* Lines 327-353: the decoder is on a carriage return or a line feed.
raw_newline(e, s, t, n, index) ==
  RawAdvance(add_character(add_literal(e, s, t, index), 32), t, n, index + 1)

\* Lines 126-136 with the line ends looked for inside a pre section too.
RawStopsAtLineEnds(e) == {13, 10, 38, 36}

\* Lines 126-136: the characters the scan of one iteration stops at.
RawStops(e) == IF e.pre > 0 THEN {38, 36} ELSE {13, 10, 38, 36}

\* One iteration of the while loop of lines 126-358 that does not break; the
\* scan stopped after index characters.
raw_iteration_at(e, s, t, n, index) ==
  IF At(s, t + index) = 38 THEN raw_ampersand(e, s, t, n, index)
  ELSE IF At(s, t + index) = 36 THEN raw_dollar(e, s, t, n, index)
  ELSE raw_newline(e, s, t, n, index)

raw_iteration(e, s, t, n) ==
  Once(LAMBDA index : raw_iteration_at(e, s, t, n, index),
       strncspn(s, t, n, RawStops(e)))

\* parse_raw_text(s + t, n) on the engine e: the engine with the decoded text
\* appended and the diagnostics logged.
RECURSIVE parse_raw_text(_, _, _, _)
parse_raw_text_rest(r, s) ==
  Once(LAMBDA r1 : parse_raw_text(r1.e, s, r1.t, r1.n), r)
parse_raw_text(e, s, t, n) ==
  IF n = 0 THEN e
  ELSE IF strncspn(s, t, n, RawStops(e)) >= n THEN add_literal(e, s, t, n)
  ELSE parse_raw_text_rest(raw_iteration(e, s, t, n), s)

(***************************************************************************)
(* Tag, attribute and element locators                                     *)
(***************************************************************************)
\* Lines 1329-1341 and 516-529: what a character makes of the two quote
\* flags; c is the character tested for the double quote, c1 the one tested
\* for the single quote.
QuotesAfter(c, c1, is_inside_of_quotes, is_inside_of_single_quotes) ==
  IF c = 34 THEN ~is_inside_of_quotes
  ELSE IF (~is_inside_of_quotes \/ is_inside_of_single_quotes) /\ c1 = 39
  THEN ~is_inside_of_quotes
  ELSE is_inside_of_quotes

SingleQuotesAfter(c, c1, is_inside_of_quotes, is_inside_of_single_quotes) ==
  IF c = 34 THEN FALSE
  ELSE IF (~is_inside_of_quotes \/ is_inside_of_single_quotes) /\ c1 = 39
  THEN TRUE
  ELSE is_inside_of_single_quotes

\* Lines 1342-1350: what a character c outside quotes makes of the count of
\* open tags.
OpenTagsAfterUncounted(c, is_inside_of_quotes, is_inside_of_single_quotes, openTagCount) ==
  IF ~is_inside_of_quotes /\ c = 62 THEN openTagCount - 1 ELSE openTagCount

OpenTagsAfter(c, is_inside_of_quotes, is_inside_of_single_quotes, openTagCount) ==
  IF c = 34 \/ ((~is_inside_of_quotes \/ is_inside_of_single_quotes) /\ c = 39)
  THEN openTagCount
  ELSE IF ~is_inside_of_quotes /\ c = 60 THEN openTagCount + 1
  ELSE IF ~is_inside_of_quotes /\ c = 62 THEN openTagCount - 1
  ELSE openTagCount

\* html_extract_text::find_close_tag: the loop of lines 1325-1353.  The loop
\* steps over the characters that are no quote, '<' or '>' without a change
\* of its state; p is on one that is, or null when the terminator comes
\* first.
RECURSIVE find_close_tag_from(_, _, _, _, _)
find_close_tag_on(s, p, is_inside_of_quotes, is_inside_of_single_quotes, openTagCount) ==
  IF p = NULLP THEN NULLP
  ELSE IF ~is_inside_of_quotes /\ s[p + 1] = 62 /\ openTagCount = 0 THEN p
  ELSE find_close_tag_from(
         s, p + 1,
         QuotesAfter(s[p + 1], s[p + 1], is_inside_of_quotes,
                     is_inside_of_single_quotes),
         SingleQuotesAfter(s[p + 1], s[p + 1], is_inside_of_quotes,
                           is_inside_of_single_quotes),
         OpenTagsAfter(s[p + 1], is_inside_of_quotes,
                       is_inside_of_single_quotes, openTagCount))

find_close_tag_from(s, p, is_inside_of_quotes, is_inside_of_single_quotes, openTagCount) ==
  Once(LAMBDA t : find_close_tag_on(s, t[1], t[2], t[3], t[4]),
       <<strcspn_pointer(s, p, {34, 39, 60, 62}),
         is_inside_of_quotes, is_inside_of_single_quotes, openTagCount>>)

find_close_tag(s, text) ==
  IF text = NULLP THEN NULLP
  ELSE find_close_tag_from(s, IF At(s, text) = 60 THEN text + 1 ELSE text,
                           FALSE, FALSE, 0)

\* html_extract_text::get_element_name: the end of the name that starts at
\* text.
get_element_name_end(s, text, accept_self_terminating_elements) ==
  First({q \in text..Greater(text, Len(s)) :
           \/ At(s, q) = NUL \/ iswspace(At(s, q)) \/ At(s, q) = 62
           \/ (accept_self_terminating_elements
               /\ At(s, q) = 47 /\ At(s, q + 1) = 62)})

get_element_name(s, text, accept_self_terminating_elements) ==
  IF text = NULLP THEN << >>
  ELSE Slice(s, text,
             get_element_name_end(s, text, accept_self_terminating_elements)
               - text)

\* operator== of case_insensitive_wstring against a literal.
ElementIs(currentElement, lit) == ToLower(currentElement) = ToLower(lit)

\* html_extract_text::stristr_not_quoted: the quote flags after the
\* comparison loop of lines 512-532 has gone over characters i to j of the
\* attempt at p.  The single-quote test of line 525 reads string[0], the first
\* character of the attempt; a character that is no double quote leaves the
\* flags alone unless string[0] is a single quote.
RECURSIVE stristr_quotes(_, _, _, _, _, _)
stristr_quotes_on(s, p, k, j, is_inside_of_quotes, is_inside_of_single_quotes) ==
  IF k = NULLP
  THEN [q |-> is_inside_of_quotes, sq |-> is_inside_of_single_quotes]
  ELSE stristr_quotes(
         s, p, k + 1, j,
         QuotesAfter(At(s, p + k), At(s, p), is_inside_of_quotes,
                     is_inside_of_single_quotes),
         SingleQuotesAfter(At(s, p + k), At(s, p), is_inside_of_quotes,
                           is_inside_of_single_quotes))

stristr_quotes(s, p, i, j, is_inside_of_quotes, is_inside_of_single_quotes) ==
  Once(LAMBDA t : stristr_quotes_on(s, t[1], t[2], t[3], t[4], t[5]),
       <<p, FirstOr({k \in i..j : At(s, p + k) = 34 \/ At(s, p) = 39}, NULLP),
         j, is_inside_of_quotes, is_inside_of_single_quotes>>)

\* Lines 512-532: the comparison stopped at character i of the attempt at p:
\* on the terminator (before the quote flags are touched), on a character
\* that differs (after) or at the end of strSearch.
stristr_compared(s, p, strSearch, i, is_inside_of_quotes, is_inside_of_single_quotes) ==
  [i |-> i,
   nul |-> i < Len(strSearch) /\ At(s, p + i) = NUL,
   f |-> stristr_quotes(
           s, p, 0,
           IF i = Len(strSearch) \/ At(s, p + i) = NUL THEN i - 1 ELSE i,
           is_inside_of_quotes, is_inside_of_single_quotes)]

\* Lines 512-532: the comparison loop of the attempt at p.
stristr_compare(s, p, strSearch, is_inside_of_quotes, is_inside_of_single_quotes) ==
  stristr_compared(
    s, p, strSearch,
    First({i \in 0..Len(strSearch) :
             \/ i = Len(strSearch)
             \/ At(s, p + i) = NUL
             \/ towlower(strSearch[i + 1]) # towlower(At(s, p + i))}),
    is_inside_of_quotes, is_inside_of_single_quotes)

RECURSIVE stristr_not_quoted_from(_, _, _, _, _, _)
\* Lines 534-543: after the comparison c of the attempt at p.
stristr_not_quoted_next(s, p, endSentinel, strSearch, c) ==
  IF c.nul THEN NULLP
  ELSE IF c.i = Len(strSearch)
  THEN IF ~c.f.q THEN p
       ELSE stristr_not_quoted_from(s, p + Len(strSearch), endSentinel,
                                    strSearch, c.f.q, c.f.sq)
  ELSE stristr_not_quoted_from(s, p + c.i + 1, endSentinel, strSearch,
                               c.f.q, c.f.sq)

\* Lines 508-544: an attempt at p.
stristr_not_quoted_on(s, p, endSentinel, strSearch, is_inside_of_quotes, is_inside_of_single_quotes) ==
  IF p = NULLP THEN NULLP
  ELSE Once(LAMBDA c : stristr_not_quoted_next(s, p, endSentinel, strSearch,
                                               c),
            stristr_compare(s, p, strSearch, is_inside_of_quotes,
                            is_inside_of_single_quotes))

\* Lines 508-544: the attempts from p on.  An attempt at a character that is
\* no quote and not the first of strSearch fails at once and leaves the quote
\* flags as they are: the next attempt that does more is at the first
\* character that is one of those, or the terminator.
stristr_not_quoted_from(s, p, endSentinel, strSearch, is_inside_of_quotes, is_inside_of_single_quotes) ==
  Once(LAMBDA t : stristr_not_quoted_on(s, t[1], endSentinel, strSearch,
                                        t[2], t[3]),
       <<FirstOr({q \in p..(endSentinel - Len(strSearch)) :
                    \/ At(s, q) \in {NUL, 34, 39}
                    \/ towlower(At(s, q)) = towlower(strSearch[1])}, NULLP),
         is_inside_of_quotes, is_inside_of_single_quotes>>)

stristr_not_quoted(s, p, stringSize, strSearch) ==
  IF p = NULLP \/ stringSize = 0 \/ Len(strSearch) = 0 THEN NULLP
  ELSE stristr_not_quoted_from(s, p, p + stringSize, strSearch, FALSE, FALSE)

\* string_util::strnistr(s + p, strSearch, n): the first case-insensitive
\* occurrence that lies within the n characters from s + p.
strnistr(s, p, strSearch, n) ==
  FirstOr({q \in p..Smaller(p + n - Len(strSearch), Len(s) - 1) :
             StartsWithI(s, q, strSearch)}, NULLP)

\* html_extract_text::find_tag: the loop of lines 624-640.
RECURSIVE find_tag_from(_, _, _, _, _, _)
\* Lines 629-639: the occurrence foundTag is the attribute when it starts the
\* text or follows a space, a semicolon or (for quoted tags) a quote.
find_tag_found(s, text, foundTag, elementEnd, tag, allowQuotedTags) ==
  IF foundTag = NULLP \/ foundTag > elementEnd THEN NULLP
  ELSE IF foundTag = text THEN foundTag
  ELSE IF allowQuotedTags /\ is_either(At(s, foundTag - 1), 39, 34)
  THEN foundTag
  ELSE IF iswspace(At(s, foundTag - 1)) \/ At(s, foundTag - 1) = 59
  THEN foundTag
  ELSE find_tag_from(s, text, foundTag + Len(tag), elementEnd, tag,
                     allowQuotedTags)

find_tag_from(s, text, foundTag0, elementEnd, tag, allowQuotedTags) ==
  Once(LAMBDA foundTag : find_tag_found(s, text, foundTag, elementEnd, tag,
                                        allowQuotedTags),
       IF allowQuotedTags
       THEN strnistr(s, foundTag0, tag, elementEnd - foundTag0)
       ELSE stristr_not_quoted(s, foundTag0, elementEnd - foundTag0, tag))

\* Lines 620-623: the search runs up to the end of the element.
find_tag_until(s, text, elementEnd, tag, allowQuotedTags) ==
  IF elementEnd = NULLP THEN NULLP
  ELSE find_tag_from(s, text, text, elementEnd, tag, allowQuotedTags)

find_tag(s, text, tag, allowQuotedTags) ==
  IF text = NULLP \/ Len(tag) = 0 THEN NULLP
  ELSE Once(LAMBDA elementEnd : find_tag_until(s, text, elementEnd, tag,
                                               allowQuotedTags),
            find_close_tag(s, text))

\* Lines 564 and 570: step over spaces.
SkipSpaces(s, p, elementEnd) ==
  Once(LAMBDA p1 : First({q \in p1..Greater(p1, elementEnd) :
                            ~(q < elementEnd /\ At(s, q) = 32)}),
       p)

\* Lines 594-600: trim trailing spaces and a terminating '/'.
TrimEnd(s, end, foundTag) ==
  Last({q \in Smaller(end, foundTag + 1)..end :
          ~(q - 1 > foundTag /\ is_either(At(s, q - 1), 47, 32))})

\* html_extract_text::read_attribute: the pair (pointer, length), the pointer
\* null when the attribute is absent or empty.
NoAttribute == [first |-> NULLP, second |-> 0]

\* Lines 602-604: the value runs from foundTag to end.
read_attribute_pair(foundTag, end) ==
  IF end - foundTag = 0 THEN NoAttribute
  ELSE [first |-> foundTag, second |-> end - foundTag]

\* Lines 587-607: the value ends at end0, trimmed when that ends the element.
read_attribute_end(s, elementEnd, foundTag, end0) ==
  IF end0 = NULLP \/ end0 > elementEnd THEN NoAttribute
  ELSE Once(LAMBDA end : read_attribute_pair(foundTag, end),
            IF At(s, end0) = 62 THEN TrimEnd(s, end0, foundTag) ELSE end0)

\* Lines 575-586: the value starts at foundTag.
read_attribute_value(s, elementEnd, foundTag, allowQuotedTags, allowSpacesInValue) ==
  IF foundTag >= elementEnd THEN NoAttribute
  ELSE Once(LAMBDA end0 : read_attribute_end(s, elementEnd, foundTag, end0),
            strcspn_pointer(s, foundTag,
              IF allowQuotedTags /\ allowSpacesInValue THEN {34, 39, 62, 59}
              ELSE IF allowQuotedTags THEN {32, 34, 39, 62, 59}
              ELSE IF allowSpacesInValue THEN {34, 39, 62}
              ELSE {32, 34, 39, 62}))

\* Lines 567-568: step over the ':' or '=' at f1.
SkipAssignment(s, f1, elementEnd) ==
  Once(LAMBDA f : IF f < elementEnd /\ is_either(At(s, f), 58, 61)
                  THEN f + 1 ELSE f,
       f1)

\* Lines 573-574: step over the opening quote at f3.
SkipQuote(s, f3, elementEnd) ==
  Once(LAMBDA f : IF f < elementEnd /\ is_either(At(s, f), 39, 34)
                  THEN f + 1 ELSE f,
       f3)

\* Lines 559-574: the attribute name was found at foundTag0.
read_attribute_found(s, tag, foundTag0, elementEnd, allowQuotedTags, allowSpacesInValue) ==
  IF foundTag0 = NULLP \/ elementEnd = NULLP \/ foundTag0 >= elementEnd
  THEN NoAttribute
  ELSE Once(LAMBDA foundTag : read_attribute_value(s, elementEnd, foundTag,
                                                   allowQuotedTags,
                                                   allowSpacesInValue),
            SkipQuote(s,
              SkipSpaces(s,
                SkipAssignment(s,
                  SkipSpaces(s, foundTag0 + Len(tag), elementEnd),
                  elementEnd),
                elementEnd),
              elementEnd))

read_attribute(s, text, tag, allowQuotedTags, allowSpacesInValue) ==
  IF text = NULLP \/ Len(tag) = 0 THEN NoAttribute
  ELSE Once(LAMBDA t : read_attribute_found(s, t[3], t[1], t[2],
                                            allowQuotedTags,
                                            allowSpacesInValue),
            Once(LAMBDA a : <<find_tag(s, a[1], a[2], allowQuotedTags),
                              find_close_tag(s, a[1]), a[2]>>,
                 <<text, tag>>))

\* Lines 47-50: the string of the pair rt.
attribute_string(s, rt) ==
  IF rt.first = NULLP THEN << >> ELSE Slice(s, rt.first, rt.second)

\* html_extract_text::read_attribute_as_string
read_attribute_as_string(s, text, attribute, allowQuotedTags, allowSpacesInValue) ==
  IF text = NULLP \/ Len(attribute) = 0 THEN << >>
  ELSE Once(LAMBDA rt : attribute_string(s, rt),
            read_attribute(s, text, attribute, allowQuotedTags,
                           allowSpacesInValue))

\* Lines 1181-1183: step back over white space.
BackOverSpace(s, closeTag, text) ==
  Last({q \in Smaller(closeTag, text)..closeTag :
          ~(q > text /\ iswspace(At(s, q)))})

\* html_extract_text::compare_element
compare_element(s, text0, element, accept_self_terminating_elements) ==
  LET text == text0 + Len(element)
      closeTag == find_close_tag(s, text)
  IN IF text0 = NULLP \/ Len(element) = 0 THEN FALSE
     ELSE IF ~strnicmp_eq(s, text0, element, Len(element)) THEN FALSE
     ELSE IF At(s, text) = NUL THEN FALSE
     ELSE IF At(s, text) = 62 THEN TRUE
     ELSE IF accept_self_terminating_elements
     THEN At(s, text) = 47 \/ iswspace(At(s, text))
     ELSE IF iswspace(At(s, text))
     THEN IF closeTag = NULLP THEN FALSE
          ELSE At(s, BackOverSpace(s, closeTag - 1, text)) # 47
     ELSE FALSE

\* Lines 1415-1420: the stack after the tag at start, one less for a closing
\* element of the name, one more for an opening one.
StackAfterOpeningsIgnored(s, start, elementTag, stackSize0) ==
  IF At(s, start + 1) = 47 /\ compare_element(s, start + 2, elementTag, TRUE)
  THEN stackSize0 - 1
  ELSE stackSize0

StackAfter(s, start, elementTag, stackSize0) ==
  IF At(s, start + 1) = 47 /\ compare_element(s, start + 2, elementTag, TRUE)
  THEN stackSize0 - 1
  ELSE IF compare_element(s, start + 1, elementTag, TRUE)
  THEN stackSize0 + 1
  ELSE stackSize0

\* html_extract_text::find_closing_element: the loop of lines 1412-1424.
RECURSIVE find_closing_element_from(_, _, _, _, _)
find_closing_element_from(s, start, sectionEnd, elementTag, stackSize0) ==
  IF start = NULLP \/ ~(start + Len(elementTag) + 1 < sectionEnd) THEN NULLP
  ELSE IF StackAfter(s, start, elementTag, stackSize0) = 0 THEN start
  ELSE find_closing_element_from(
         s, wcschr(s, start + 1, 60), sectionEnd, elementTag,
         StackAfter(s, start, elementTag, stackSize0))

find_closing_element(s, sectionStart, sectionEnd, elementTag) ==
  LET start0 == wcschr(s, sectionStart, 60)
      start == start0 + 1
      onOpen == compare_element(s, start, elementTag, TRUE)
      onClose == At(s, start) = 47
                 /\ compare_element(s, start + 1, elementTag, TRUE)
  IN IF sectionStart = NULLP \/ sectionEnd = NULLP \/ Len(elementTag) = 0
     THEN NULLP
     ELSE IF start0 = NULLP \/ start0 + Len(elementTag) > sectionEnd THEN NULLP
     ELSE IF ~onOpen /\ onClose THEN start - 1
     ELSE find_closing_element_from(
            s,
            wcschr(s, IF onOpen THEN start + Len(elementTag) ELSE sectionStart,
                   60),
            sectionEnd, elementTag, 1)

(***************************************************************************)
(* The engine                                                              *)
(*                                                                         *)
(* An engine record holds the fields of one html_extract_text object, the  *)
(* locals of operator() that live across the iterations of its main loop   *)
(* and the position pc of the call.  Fields spans, skipped, unterm, cmt    *)
(* and writes are history: they record what the call did and nothing reads *)
(* them.                                                                   *)
(***************************************************************************)
\* A newly constructed engine.
EngineFresh ==
  [text |-> << >>, log |-> << >>,
   title |-> << >>, author |-> << >>, description |-> << >>,
   keywords |-> << >>, subject |-> << >>,
   pre |-> 0, sup |-> 0, sub |-> 0,
   start |-> NULLP, end |-> NULLP,
   sym |-> FALSE, prev |-> 0, copied |-> << >>,
   pc |-> "idle", result |-> "none",
   spans |-> << >>, skipped |-> {}, unterm |-> {}, cmt |-> << >>,
   writes |-> << >>]

\* string_util::trim
NotSpaces(str) == {i \in 1..Len(str) : ~iswspace(str[i])}
trim(str) ==
  IF NotSpaces(str) = {} THEN << >>
  ELSE SubSeq(str, First(NotSpaces(str)), Last(NotSpaces(str)))

\* string_util::remove_extra_spaces: runs of spaces become one space; a
\* space is dropped when a space follows it.
KeptOf(str) ==
  {i \in 1..Len(str) : ~(i < Len(str) /\ str[i] = 32 /\ str[i + 1] = 32)}
Nth(S, k) == CHOOSE i \in S : Cardinality({j \in S : j <= i}) = k
remove_extra_spaces(str) ==
  [k \in 1..Cardinality(KeptOf(str)) |-> str[Nth(KeptOf(str), k)]]

\* The span from t of n input characters that took the engine e to r.
Span(e, r, kind, t, n) ==
  [r EXCEPT !.spans =
     Append(@, [kind |-> kind, from |-> t, to |-> t + n,
                pre |-> e.pre, sup |-> e.sup, sub |-> e.sub,
                o1 |-> Len(e.text), o2 |-> Len(r.text), sym |-> e.sym])]

\* parse_raw_text(s + t, n), with the span recorded.
Raw(e, s, t, n) ==
  Once(LAMBDA e1 : Once(LAMBDA r : Span(e1, r, "raw", t, n),
                        parse_raw_text(e1, s, t, n)),
       e)

\* add_characters(s + t, n) of input characters, with the span recorded.
Copy(e, s, t, n) == Span(e, add_characters(e, s, t, n), "copy", t, n)

\* break out of the main loop.
Break(e) == [e EXCEPT !.pc = "tail"]

\* Lines 678-682: allocate_text_buffer refuses a length no buffer can have.
MaxAlloc == 536870912
allocate_text_buffer(text_length) == text_length < MaxAlloc

\* Lines 665-669 without the reset of the metadata: clear_log and the three
\* depth counters.
ResetKeepsMetaData(e0, preserve_newlines) ==
  [e0 EXCEPT !.log = << >>,
             !.pre = IF preserve_newlines THEN 1 ELSE 0,
             !.sup = 0, !.sub = 0]

\* Lines 665-669 without the reset of the depth counters.
ResetKeepsDepth(e0, preserve_newlines) ==
  [e0 EXCEPT !.log = << >>,
             !.title = << >>, !.author = << >>, !.description = << >>,
             !.keywords = << >>, !.subject = << >>]

\* Lines 665-669: clear_log, the three depth counters, reset_meta_data.
ResetState(e0, preserve_newlines) ==
  [e0 EXCEPT !.log = << >>,
             !.pre = IF preserve_newlines THEN 1 ELSE 0,
             !.sup = 0, !.sub = 0,
             !.title = << >>, !.author = << >>, !.description = << >>,
             !.keywords = << >>, !.subject = << >>]

\* Lines 684-696: the text before the first '<', at a.start, is decoded.
EnterText(a, s, text_length, include_outer_text) ==
  IF include_outer_text /\ (a.start = NULLP \/ a.start > 0)
  THEN Raw(a, s, 0, IF a.start # NULLP /\ a.start < text_length
                    THEN a.start ELSE text_length)
  ELSE a

\* Lines 671-696: the inputs are verified on the engine e, whose state is
\* reset.
EnterVerified(e, s, isnull, text_length, include_outer_text) ==
  IF isnull \/ At(s, 0) = NUL \/ text_length = 0
     \/ ~allocate_text_buffer(text_length)
  THEN [e EXCEPT !.text = << >>, !.result = "absent", !.pc = "done"]
  ELSE EnterText([e EXCEPT !.text = << >>, !.start = wcschr(s, 0, 60),
                           !.pc = "loop", !.result = "none"],
                 s, text_length, include_outer_text)

\* Lines 665-698: the state is reset, the inputs verified and the text before
\* the first '<' decoded.
Enter(e0, s, isnull, text_length, include_outer_text, preserve_newlines) ==
  EnterVerified([ResetState(e0, preserve_newlines)
                   EXCEPT !.sym = FALSE, !.prev = 0, !.copied = << >>,
                          !.start = NULLP, !.end = NULLP,
                          !.spans = << >>, !.skipped = {}, !.unterm = {},
                          !.cmt = << >>, !.writes = << >>],
                s, isnull, text_length, include_outer_text)

\* The whole call on a fresh engine (declared here, defined after the steps):
\* the metadata values are decoded by engines of their own.
RECURSIVE Extract(_, _, _, _)

\* Lines 810-819, 871-877: the value a nested engine decoded becomes the
\* metadata field.
MetaValue(old, nested) ==
  IF nested.result = "absent" THEN old
  ELSE remove_extra_spaces(trim(nested.text))

SetField(e, field, value) ==
  [e EXCEPT ![field] = value,
            !.writes = Append(@, [field |-> field, value |-> value])]

\* Lines 705-715 with the scan left just after the <!-- of a comment that is
\* not terminated.
DispatchCommentKeepsEnd(e, s) ==
  LET end == wcsstr(s, e.start, W(<<"-", "-", ">">>))
  IN IF end = NULLP
     THEN Break([e EXCEPT !.end = e.start + 4,
                          !.cmt = <<[at |-> e.start, text |-> e.text]>>])
     ELSE [e EXCEPT !.end = end + 3, !.pc = "next"]

\* Lines 705-715: a comment.
DispatchComment(e, s) ==
  LET end == wcsstr(s, e.start, W(<<"-", "-", ">">>))
  IN IF end = NULLP
     THEN Break([e EXCEPT !.end = NULLP,
                          !.cmt = <<[at |-> e.start, text |-> e.text]>>])
     ELSE [e EXCEPT !.end = end + 3, !.pc = "next"]

\* Lines 716-799 with the element skipped up to the end of its opening tag
\* only.
DispatchSkipOpeningTag(e, s, closing) ==
  LET end == stristr(s, e.start, closing)
      closeTag == find_close_tag(s, e.start)
  IN IF end # NULLP /\ closeTag # NULLP
     THEN [e EXCEPT !.end = closeTag + 1, !.pc = "next",
                    !.skipped = @ \cup {<<e.start, end + Len(closing)>>}]
     ELSE Break([e EXCEPT !.end = NULLP])

\* Lines 716-799: script, noscript, annotation, annotation-xml and style are
\* skipped up to closing, the text of their closing tag.
DispatchSkip(e, s, closing) ==
  LET end == stristr(s, e.start, closing)
      closeTag == find_close_tag(s, e.start)
      next == wcschr(s, closeTag, 60)
  IN IF end # NULLP
     THEN [e EXCEPT !.end = end + Len(closing), !.pc = "next",
                    !.skipped = @ \cup {<<e.start, end + Len(closing)>>}]
     ELSE IF closeTag = NULLP THEN Break([e EXCEPT !.end = NULLP])
     ELSE IF next = NULLP THEN Break([e EXCEPT !.end = NULLP])
     ELSE [e EXCEPT !.end = next, !.pc = "next"]

\* Lines 810-819, 823-832, 836-845: content is assigned to the field and
\* decoded by an engine of its own.
MetaContent(e, field, content) ==
  Once(LAMBDA nested : SetField(e, field, MetaValue(content, nested)),
       Extract(content, Len(content), TRUE, FALSE))

\* Lines 808-846: the content of a meta element named author, description or
\* keywords becomes the field.
MetaField(e, s, field) ==
  Once(LAMBDA content : MetaContent(e, field, content),
       read_attribute_as_string(s, e.start,
         W(<<"c","o","n","t","e","n","t">>), FALSE, TRUE))

\* Lines 808, 821, 834: the field a meta element of that name sets.
MetaFieldNamed(metaName) ==
  IF stricmp_eq(metaName, W(<<"a","u","t","h","o","r">>)) THEN "author"
  ELSE IF stricmp_eq(metaName,
            W(<<"d","e","s","c","r","i","p","t","i","o","n">>))
  THEN "description"
  ELSE IF stricmp_eq(metaName, W(<<"k","e","y","w","o","r","d","s">>))
  THEN "keywords"
  ELSE "none"

\* Lines 803-846: the meta element is named metaName.
MetaNamed(e, s, field) ==
  IF field = "none" THEN e ELSE MetaField(e, s, field)

\* Lines 805-807, 847-850: the scan moves to the '<' after the element, which ends at
\* closeTag.
MetaEnd(e, e1, end, closeTag) ==
  IF closeTag = NULLP THEN Break(e)
  ELSE IF end = NULLP THEN Break([e1 EXCEPT !.end = NULLP])
  ELSE [e1 EXCEPT !.end = end, !.pc = "next"]

\* Lines 801-851: a meta element.
DispatchMeta(e, s) ==
  MetaEnd(e,
          MetaNamed(e, s,
            Once(LAMBDA metaName : MetaFieldNamed(metaName),
                 read_attribute_as_string(s, e.start, W(<<"n","a","m","e">>),
                                          FALSE, FALSE))),
          wcschr(s, find_close_tag(s, e.start), 60),
          find_close_tag(s, e.start))

\* size_t(d): a negative difference of pointers wraps.
\* SIZE_RANGE stands for 2^64, which is past the integers of TLC; all
\* that the model uses of it is that it exceeds every length of a buffer.
SIZE_RANGE == 1073741824
SizeT(d) == IF d < 0 THEN d + SIZE_RANGE ELSE d

\* Lines 872-877, 901-906: the field takes what titleParser decoded, unless
\* it decoded nothing.
TitleParsed(e, field, titleParser) ==
  IF titleParser.result = "absent" THEN e
  ELSE SetField(e, field, MetaValue(e[field], titleParser))

\* Lines 853-909: a title or a subject element; closing is the text of its
\* closing tag.
DispatchTitle(e, s, field, closing) ==
  LET titleStart == find_close_tag(s, e.start) + 1
      end == stristr(s, e.start, closing)
      next == wcschr(s, titleStart, 60)
  IN IF find_close_tag(s, e.start) = NULLP THEN Break(e)
     ELSE IF end = NULLP
     THEN IF next = NULLP THEN Break([e EXCEPT !.end = NULLP])
          ELSE [e EXCEPT !.end = next, !.pc = "next"]
     ELSE [Once(LAMBDA titleParser : TitleParsed(e, field, titleParser),
                Extract(From(s, titleStart), SizeT(end - titleStart),
                        TRUE, FALSE))
           EXCEPT !.end = end + Len(closing), !.pc = "next"]

\* Lines 919-930 with start left on the stray '<'.
StrayEndStaying(r, end) ==
  IF end = NULLP THEN Break([r EXCEPT !.end = NULLP])
  ELSE [r EXCEPT !.end = end, !.pc = "loop"]

\* Lines 919-930: the text r up to the next '<', at end, is decoded.
StrayEnd(r, end) ==
  IF end = NULLP THEN Break([r EXCEPT !.end = NULLP])
  ELSE [r EXCEPT !.start = end, !.end = end, !.pc = "loop"]

StrayUntil(e, s, end, endSentinel) ==
  StrayEnd(Raw(e, s, e.start,
               IF end = NULLP THEN SizeT(endSentinel - e.start)
               ELSE end - e.start),
           end)

\* Lines 910-931: a stray '<'.
DispatchStray(e, s, endSentinel) ==
  StrayUntil(e, s, wcschr(s, e.start + 1, 60), endSentinel)

\* Lines 932-948: a CDATA section.
DispatchCdata(e, s, endSentinel) ==
  LET start == e.start + 9
      end == wcsstr(s, start, W(<<"]", "]", ">">>))
      inPre == [e EXCEPT !.pre = @ + 1]
      parsed == Raw(inPre, s, start, SizeT(endSentinel - start))
  IN IF end = NULLP \/ end > endSentinel
     THEN Break([parsed EXCEPT !.pre = @ - 1, !.start = start, !.end = end])
     ELSE [Copy(e, s, start, end - start)
           EXCEPT !.start = end, !.end = end + 2, !.pc = "loop"]

\* Lines 660-663: the elements that start a paragraph.
newParagraphElements ==
  {W(<<"b","u","t","t","o","n">>), W(<<"d","i","v">>), W(<<"d","l">>),
   W(<<"d","t">>), W(<<"h","1">>), W(<<"h","2">>), W(<<"h","3">>),
   W(<<"h","4">>), W(<<"h","5">>), W(<<"h","6">>), W(<<"h","r">>),
   W(<<"i","n","p","u","t">>), W(<<"o","l">>),
   W(<<"o","p","t","i","o","n">>), W(<<"p">>),
   W(<<"s","e","l","e","c","t">>), W(<<"t","a","b","l","e">>),
   W(<<"t","r">>), W(<<"u","l">>)}

IsParagraphElement(name) == ToLower(name) \in newParagraphElements

\* std::wstring::find(lit) != npos
Contains(str, lit) == wcsstr(str, 0, lit) # NULLP

\* Lines 951-964: is the element set in the Symbol font?
IsSymbolFont(s, start, currentElement) ==
  LET Symbol == W(<<"S","y","m","b","o","l">>)
      face == read_attribute(s, start + 1, W(<<"f","a","c","e">>),
                             FALSE, TRUE).first
      family == read_attribute(s, start + 1,
                  W(<<"f","o","n","t","-","f","a","m","i","l","y">>),
                  TRUE, TRUE).first
  IN IF ElementIs(currentElement, W(<<"f","o","n","t">>))
     THEN strnicmp_eq(s, face, Symbol, 6) \/ strnicmp_eq(s, family, Symbol, 6)
     ELSE strnicmp_eq(s, family, Symbol, 6)

\* Lines 980-984: the values of page-break-before that break the page.
IsPageBreak(pageBreakValue) ==
  Len(pageBreakValue) > 0
  /\ (strnicmp_eq(pageBreakValue, 0, W(<<"a","l","w","a","y","s">>), 6)
      \/ strnicmp_eq(pageBreakValue, 0, W(<<"a","u","t","o">>), 4)
      \/ strnicmp_eq(pageBreakValue, 0, W(<<"l","e","f","t">>), 4)
      \/ strnicmp_eq(pageBreakValue, 0, W(<<"r","i","g","h","t">>), 5))

\* Lines 974-986: an element that starts a paragraph.
ElementParagraph(e, s) ==
  IF Once(LAMBDA pageBreakValue : IsPageBreak(pageBreakValue),
          read_attribute_as_string(s, e.start + 1,
            W(<<"p","a","g","e","-","b","r","e","a","k","-",
                "b","e","f","o","r","e">>), TRUE, FALSE))
  THEN add_character(add_character(add_character(e, 10), 10), 12)
  ELSE add_character(add_character(e, 10), 10)

\* Lines 1021-1024: a link to a mail address or a telephone number.
AnchorHref(e, href) ==
  IF strnicmp_eq(href, 0, W(<<"m","a","i","l","t","o",":">>), 7)
     \/ strnicmp_eq(href, 0, W(<<"t","e","l",":">>), 4)
  THEN add_character(e, 32) ELSE e

\* Lines 1028-1033: a link of the footer.
AnchorClass(e1, class) ==
  IF Contains(class, W(<<"F","o","o","t","e","r","L","i","n","k">>))
  THEN add_character(add_character(e1, 10), 10)
  ELSE e1

\* Lines 1016-1035: a hyperlink.
ElementAnchor(e, s) ==
  AnchorClass(
    AnchorHref(e, read_attribute_as_string(s, e.start + 1,
                    W(<<"h","r","e","f">>), FALSE, FALSE)),
    read_attribute_as_string(s, e.start + 1, W(<<"c","l","a","s","s">>),
                             FALSE, FALSE))

\* Lines 1040-1045: the data type of a span.
SpanDataType(e, dataType) ==
  IF dataType = W(<<"n","e","w","l","i","n","e">>)
  THEN add_character(e, 10)
  ELSE IF dataType = W(<<"f","o","o","t","n","o","t","e","-","r","e",
                         "f","-","c","o","n","t","e","n","t">>)
  THEN add_character(e, 9)
  ELSE e

\* Lines 1062-1064: a hidden span is stepped over when it is closed, at
\* spanEnd.
SpanHidden(e1, spanEnd) ==
  IF spanEnd # NULLP THEN [e1 EXCEPT !.start = spanEnd] ELSE e1

\* Lines 1049-1066: the class of a span.
SpanClass(e1, s, endSentinel, class) ==
  IF Len(class) = 0 THEN e1
  ELSE IF Contains(class, W(<<"B","o","o","k","B","a","n","n","e","r">>))
          \/ class = W(<<"o","s","-","c","a","p","t","i","o","n">>)
  THEN add_character(add_character(e1, 10), 10)
  ELSE IF class = W(<<"o","s","-","t","e","r","m","-","s","e","c","t","i",
                      "o","n">>)
  THEN add_character(e1, 9)
  ELSE IF Contains(class, W(<<"h","i","d","d","e","n">>))
  THEN SpanHidden(e1, find_closing_element(s, e1.start, endSentinel,
                                           W(<<"s","p","a","n">>)))
  ELSE e1

\* Lines 1036-1068: a span.
ElementSpan(e, s, endSentinel) ==
  SpanClass(
    SpanDataType(e, read_attribute_as_string(s, e.start + 1,
                      W(<<"d","a","t","a","-","t","y","p","e">>),
                      FALSE, FALSE)),
    s, endSentinel,
    read_attribute_as_string(s, e.start + 1, W(<<"c","l","a","s","s">>),
                             FALSE, FALSE))

\* Lines 966-1036: the tests of the element name, in the order of the source.
EffectKind(e, s, endSentinel, currentElement) ==
  IF ElementIs(currentElement, W(<<"p","r","e">>)) THEN "pre"
  ELSE IF ElementIs(currentElement, W(<<"s","u","p">>)) THEN "sup"
  ELSE IF ElementIs(currentElement, W(<<"s","u","b">>)) THEN "sub"
  ELSE IF IsParagraphElement(currentElement) THEN "paragraph"
  ELSE IF ElementIs(currentElement, W(<<"b","r">>)) THEN "br"
  ELSE IF endSentinel - e.start >= 3 /\ At(s, e.start) = 60
          /\ At(s, e.start + 1) = 47
  THEN IF IsParagraphElement(Tail(currentElement))
          /\ ~ElementIs(currentElement, W(<<"/","t","r">>))
          /\ ~ElementIs(currentElement, W(<<"/","d","t">>))
          /\ ~ElementIs(currentElement, W(<<"/","o","p","t","i","o","n">>))
       THEN "paragraph end"
       ELSE "end"
  ELSE IF ElementIs(currentElement, W(<<"l","i">>)) THEN "li"
  ELSE IF ElementIs(currentElement, W(<<"t","d">>)) THEN "td"
  ELSE IF ElementIs(currentElement, W(<<"d","d">>)) THEN "dd"
  ELSE IF ElementIs(currentElement, W(<<"a">>)) THEN "a"
  ELSE IF ElementIs(currentElement, W(<<"s","p","a","n">>)) THEN "span"
  ELSE "other"

\* Lines 965-1068: what an element of that kind adds to the output or
\* changes.
EffectOf(e, s, endSentinel, kind) ==
  CASE kind = "pre" -> [e EXCEPT !.pre = @ + 1]
    [] kind = "sup" -> [e EXCEPT !.sup = @ + 1]
    [] kind = "sub" -> [e EXCEPT !.sub = @ + 1]
    [] kind = "paragraph" -> ElementParagraph(e, s)
    [] kind = "br" -> add_character(e, 10)
    [] kind = "paragraph end" -> add_character(add_character(e, 10), 10)
    [] kind = "end" -> e
    [] kind = "li" -> add_character(add_character(e, 10), 9)
    [] kind = "td" -> add_character(e, 9)
    [] kind = "dd" -> add_character(add_character(e, 58), 9)
    [] kind = "a" -> ElementAnchor(e, s)
    [] kind = "span" -> ElementSpan(e, s, endSentinel)
    [] kind = "other" -> e

\* Lines 965-1068: what the element itself adds to the output or changes.
ElementEffect(e, s, endSentinel, currentElement) ==
  Once(LAMBDA kind : EffectOf(e, s, endSentinel, kind),
       EffectKind(e, s, endSentinel, currentElement))

\* Lines 1069-1090: the scan moves past the end of the element; one that is
\* not terminated is decoded as text up to the next '<'.
ElementEnd(e1, s, endSentinel) ==
  LET closeTag == find_close_tag(s, e1.start + 1)
      next == wcschr(s, e1.start + 1, 60)
  IN IF closeTag # NULLP THEN [e1 EXCEPT !.end = closeTag + 1, !.pc = "next"]
     ELSE IF next = NULLP
     THEN Break([e1 EXCEPT !.end = NULLP,
                           !.unterm = @ \cup {<<e1.start, endSentinel>>}])
     ELSE [Raw(e1, s, e1.start, next - e1.start)
           EXCEPT !.start = next, !.end = next, !.pc = "loop",
                  !.unterm = @ \cup {<<e1.start, next>>}]

\* Lines 949-1090: any other element.
DispatchElement(e, s, endSentinel, currentElement) ==
  Once(LAMBDA e1 : ElementEnd(e1, s, endSentinel),
       Once(LAMBDA e2 : ElementEffect(e2, s, endSentinel, currentElement),
            [e EXCEPT !.sym = IsSymbolFont(s, e.start, currentElement)]))

\* Lines 706-949: the tests of the element at start, in the order of the
\* source.
ElementKind(s, start, endSentinel, currentElement) ==
  IF endSentinel - start >= 4
     /\ StartsWith(s, start, W(<<"<", "!", "-", "-">>))
  THEN "comment"
  ELSE IF ElementIs(currentElement, W(<<"s","c","r","i","p","t">>))
  THEN "script"
  ELSE IF ElementIs(currentElement, W(<<"n","o","s","c","r","i","p","t">>))
  THEN "noscript"
  ELSE IF ElementIs(currentElement,
                    W(<<"a","n","n","o","t","a","t","i","o","n">>))
  THEN "annotation"
  ELSE IF ElementIs(currentElement,
            W(<<"a","n","n","o","t","a","t","i","o","n","-","x","m","l">>))
  THEN "annotation-xml"
  ELSE IF ElementIs(currentElement, W(<<"s","t","y","l","e">>)) THEN "style"
  ELSE IF ElementIs(currentElement, W(<<"m","e","t","a">>)) THEN "meta"
  ELSE IF ElementIs(currentElement, W(<<"t","i","t","l","e">>)) THEN "title"
  ELSE IF ElementIs(currentElement, W(<<"s","u","b","j","e","c","t">>))
  THEN "subject"
  ELSE IF (endSentinel - start >= 2 /\ At(s, start) = 60
           /\ iswspace(At(s, start + 1)))
          \/ (endSentinel - start >= 7
              /\ StartsWithI(s, start, W(<<"<","&","n","b","s","p",";">>)))
  THEN "stray"
  ELSE IF Len(currentElement) >= 8
          /\ ElementIs(SubSeq(currentElement, 1, 8),
                       W(<<"!","[","C","D","A","T","A","[">>))
  THEN "cdata"
  ELSE "element"

\* Lines 706-1090: one iteration of the main loop on an element of that
\* kind.
DispatchKind(e, s, endSentinel, currentElement, kind) ==
  CASE kind = "comment" -> DispatchComment(e, s)
    [] kind = "script" ->
         DispatchSkip(e, s, W(<<"<","/","s","c","r","i","p","t",">">>))
    [] kind = "noscript" ->
         DispatchSkip(e, s,
                      W(<<"<","/","n","o","s","c","r","i","p","t",">">>))
    [] kind = "annotation" ->
         DispatchSkip(e, s,
           W(<<"<","/","a","n","n","o","t","a","t","i","o","n",">">>))
    [] kind = "annotation-xml" ->
         DispatchSkip(e, s,
           W(<<"<","/","a","n","n","o","t","a","t","i","o","n","-",
               "x","m","l",">">>))
    [] kind = "style" ->
         DispatchSkip(e, s, W(<<"<","/","s","t","y","l","e",">">>))
    [] kind = "meta" -> DispatchMeta(e, s)
    [] kind = "title" ->
         DispatchTitle(e, s, "title", W(<<"<","/","t","i","t","l","e",">">>))
    [] kind = "subject" ->
         DispatchTitle(e, s, "subject",
                       W(<<"<","/","s","u","b","j","e","c","t",">">>))
    [] kind = "stray" -> DispatchStray(e, s, endSentinel)
    [] kind = "cdata" -> DispatchCdata(e, s, endSentinel)
    [] kind = "element" -> DispatchElement(e, s, endSentinel, currentElement)

\* Lines 702-703: the element at start is named currentElement.
DispatchNamed(e, s, endSentinel, currentElement) ==
  Once(LAMBDA kind : DispatchKind(e, s, endSentinel, currentElement, kind),
       ElementKind(s, e.start, endSentinel, currentElement))

\* Lines 700-1090: the test of the main loop and, when it holds, the
\* dispatch of one iteration on the element at start.
Dispatch(e0, s, text_length) ==
  IF ~(e0.start # NULLP /\ e0.start < text_length) THEN Break(e0)
  ELSE Once(LAMBDA currentElement :
              DispatchNamed([e0 EXCEPT !.sym = FALSE], s, text_length,
                            currentElement),
            get_element_name(s, e0.start + 1, FALSE))

\* Lines 1091-1098: the next tag is found and the text before it decoded.
Between(e, s, text_length) ==
  LET start == wcschr(s, e.end, 60)
      e1 == [e EXCEPT !.start = start]
  IN IF start = NULLP \/ start >= text_length THEN Break(e1)
     ELSE [Raw([e1 EXCEPT !.prev = Len(e.text)], s, e.end, start - e.end)
           EXCEPT !.pc = IF e.sym THEN "symbol" ELSE "close"]

\* html_extract_text::convert_symbol_font_section
convert_symbol_font_section(symbolFontText) ==
  [i \in 1..Len(symbolFontText) |-> symbol_font_table_find(symbolFontText[i])]

\* Lines 1103-1109 with the output cut back to nothing rather than to
\* previousLength.
SymbolPopAll(e) ==
  [e EXCEPT !.copied = convert_symbol_font_section(
                         SubSeq(e.text, e.prev + 1, Len(e.text))),
            !.text = << >>,
            !.pc = "sympush"]

\* Lines 1103-1109: the text just decoded is converted and taken off the
\* output.
SymbolPop(e) ==
  [e EXCEPT !.copied = convert_symbol_font_section(
                         SubSeq(e.text, e.prev + 1, Len(e.text))),
            !.text = SubSeq(e.text, 1, e.prev),
            !.pc = "sympush"]

\* Lines 1110-1113: the converted text is appended.
SymbolPush(e) ==
  LET e1 == add_string(e, e.copied)
  IN [(IF Len(e.copied) > 0
       THEN log_message(e1, "Symbol font used for the following", e.copied)
       ELSE e1)
      EXCEPT !.pc = "close"]

\* Lines 1116-1117 without the test of the counter.
PopDepthUnguarded(n) == n - 1

\* Lines 1116-1117, 1122-1123, 1128-1129: a depth counter is decremented
\* when it is above zero.
PopDepth(n) == IF n > 0 THEN n - 1 ELSE n

\* Lines 1114-1131: a closing pre, sup or sub at start ends the section.
CloseCheck(e, s) ==
  IF strnicmp_eq(s, e.start, W(<<"<","/","p","r","e",">">>), 6)
  THEN [e EXCEPT !.pre = PopDepth(@), !.pc = "loop"]
  ELSE IF strnicmp_eq(s, e.start, W(<<"<","/","s","u","p",">">>), 6)
  THEN [e EXCEPT !.sup = PopDepth(@), !.pc = "loop"]
  ELSE IF strnicmp_eq(s, e.start, W(<<"<","/","s","u","b",">">>), 6)
  THEN [e EXCEPT !.sub = PopDepth(@), !.pc = "loop"]
  ELSE [e EXCEPT !.pc = "loop"]

\* Line 1140: the call returns the output.
Returned(e1) == [e1 EXCEPT !.pc = "done", !.result = "text"]

\* Lines 1134-1140: the text after the last tag, and the return.
Finish(e, s, text_length, include_outer_text) ==
  Returned(IF e.end # NULLP /\ e.end < text_length /\ include_outer_text
           THEN Raw([e EXCEPT !.sym = FALSE], s, e.end, text_length - e.end)
           ELSE e)

\* One step of a call that is under way.
Step(e, s, text_length, include_outer_text) ==
  CASE e.pc = "loop" -> Dispatch(e, s, text_length)
    [] e.pc = "next" -> Between(e, s, text_length)
    [] e.pc = "symbol" -> SymbolPop(e)
    [] e.pc = "sympush" -> SymbolPush(e)
    [] e.pc = "close" -> CloseCheck(e, s)
    [] e.pc = "tail" -> Finish(e, s, text_length, include_outer_text)

RECURSIVE Run(_, _, _, _)
Run(e, s, text_length, include_outer_text) ==
  IF e.pc = "done" THEN e
  ELSE Once(LAMBDA e1 : Run(e1, s, text_length, include_outer_text),
            Step(e, s, text_length, include_outer_text))

Extract(s, text_length, include_outer_text, preserve_newlines) ==
  Once(LAMBDA a :
         Once(LAMBDA e : Run(e, a[1], a[2], include_outer_text),
              Enter(EngineFresh, a[1], FALSE, a[2], include_outer_text,
                    preserve_newlines)),
       <<s, text_length>>)

(***************************************************************************)
(* html_url_format                                                         *)
(*                                                                         *)
(* A url object is the record of the fields of one html_url_format; ret is *)
(* what its last call of operator() returned (NULLP for a null pointer,    *)
(* otherwise m_current_url).                                               *)
(***************************************************************************)
\* std::wstring::npos
npos == SIZE_RANGE - 1

LastOr(S, none) == Once(LAMBDA T : IF T = {} THEN none ELSE Last(T), S)

\* std::wstring::rfind(c, pos), find(c, pos) and substr(pos, count)
rfind(str, c, pos) ==
  LastOr({i \in 0..Smaller(pos, Len(str) - 1) : str[i + 1] = c}, npos)
find(str, c, pos) ==
  FirstOr({i \in pos..(Len(str) - 1) : str[i + 1] = c}, npos)
substr(str, pos, count) == SubSeq(str, pos + 1, Smaller(Len(str), pos + count))

\* string_util::replace_all(str, L" ", 1, L"%20")
RECURSIVE replace_all_spaces(_)
replace_all_spaces(str) ==
  IF str = << >> THEN << >>
  ELSE (IF Head(str) = 32 THEN <<37, 50, 48>> ELSE <<Head(str)>>)
       \o replace_all_spaces(Tail(str))

HTTP == W(<<"h","t","t","p",":","/","/">>)
HTTPS == W(<<"h","t","t","p","s",":","/","/">>)
FTP == W(<<"f","t","p",":","/","/">>)
FTPS == W(<<"f","t","p","s",":","/","/">>)
WWW == W(<<"w","w","w",".">>)
DOT_SLASH == W(<<".","/">>)
UP == W(<<".",".","/">>)
PHP_IMAGE == W(<<"i","m","a","g","e","=">>)

\* html_url_format::is_absolute_url: the path starts with a protocol or with
\* www.
is_absolute_url(path) ==
  \E prefix \in {HTTP, HTTPS, FTP, FTPS, WWW} : StartsWithI(path, 0, prefix)

\* html_url_format::find_last_directory: the url (a slash is appended to one
\* that ends at its domain), the position of its last directory slash and
\* that of its query.
find_last_directory_at(url, query_postion, last_slash) ==
  IF (last_slash # npos /\ last_slash > 0 /\ At(url, last_slash - 1) = 47)
     \/ last_slash = npos
  THEN [url |-> Append(url, 47), last_slash |-> Len(url),
        query |-> query_postion]
  ELSE [url |-> url, last_slash |-> last_slash, query |-> query_postion]

find_last_directory_before(url, query_postion, last_slash) ==
  find_last_directory_at(
    url, query_postion,
    IF query_postion # npos /\ last_slash # npos /\ query_postion > 0
       /\ last_slash > 0 /\ last_slash > query_postion
    THEN rfind(url, 47, query_postion - 1)
    ELSE last_slash)

find_last_directory(url) ==
  find_last_directory_before(url, rfind(url, 63, npos), rfind(url, 47, npos))

\* html_url_format::parse_domain, lines 2426-2437: the length of the protocol.
ProtocolLength(url) ==
  CASE StartsWithI(url, 0, HTTP) -> 7
    [] StartsWithI(url, 0, HTTPS) -> 8
    [] StartsWithI(url, 0, FTP) -> 6
    [] StartsWithI(url, 0, FTPS) -> 7
    [] OTHER -> 0

\* Lines 2459-2468: the subdomain.
parse_domain_sub(full_domain, lastSlash, domain, before) ==
  [full_domain |-> full_domain, domain |-> domain,
   subdomain |-> IF before # npos
                 THEN substr(full_domain, before + 1, lastSlash - (before + 1))
                 ELSE domain]

\* Lines 2450-2458: the domain starts after dot.
parse_domain_from(full_domain, startIndex, lastSlash, dot) ==
  parse_domain_sub(full_domain, lastSlash,
                   substr(full_domain, dot, lastSlash - dot),
                   IF dot # startIndex /\ dot > 2
                   THEN rfind(full_domain, 46, dot - 2) ELSE npos)

\* Lines 2444-2456.
parse_domain_dots(full_domain, startIndex, lastSlash, subdomain, dot, before) ==
  IF dot = npos \/ dot = 0
  THEN [full_domain |-> full_domain, domain |-> << >>,
        subdomain |-> subdomain]
  ELSE parse_domain_from(full_domain, startIndex, lastSlash,
                         IF before # npos THEN before + 1 ELSE startIndex)

parse_domain_in(full_domain, startIndex, lastSlash, subdomain, dot) ==
  parse_domain_dots(full_domain, startIndex, lastSlash, subdomain, dot,
                    IF dot = npos \/ dot = 0 THEN npos
                    ELSE rfind(full_domain, 46, dot - 1))

parse_domain_until(url, startIndex, lastSlash, subdomain, full_domain) ==
  parse_domain_in(full_domain, startIndex, lastSlash, subdomain,
                  rfind(full_domain, 46, lastSlash))

\* html_url_format::parse_domain; subdomain is the value the field has on
\* entry, which lines 2423-2424 do not clear.
parse_domain(url, subdomain) ==
  parse_domain_until(
    url, ProtocolLength(url), find(url, 47, ProtocolLength(url)), subdomain,
    IF find(url, 47, ProtocolLength(url)) = npos THEN url
    ELSE substr(url, 0, find(url, 47, ProtocolLength(url))))

\* html_url_format::parse_image_name_from_url
parse_image_name_after(url, start) ==
  IF start = NULLP THEN << >>
  ELSE Slice(url, start + Len(PHP_IMAGE),
             (IF wcschr(url, start + Len(PHP_IMAGE), 38) = NULLP THEN Len(url)
              ELSE wcschr(url, start + Len(PHP_IMAGE), 38))
             - (start + Len(PHP_IMAGE)))

parse_image_name_from_url(url) ==
  IF url = << >> \/ wcschr(url, 0, 63) = NULLP THEN << >>
  ELSE parse_image_name_after(url, stristr(url, wcschr(url, 0, 63), PHP_IMAGE))

\* html_url_format::html_url_format, lines 2206-2220.
url_constructed(root_url, dir, root, current) ==
  [m_root_url |-> dir.url, m_current_url |-> root_url,
   m_last_slash |-> dir.last_slash, m_query |-> dir.query,
   m_root_full_domain |-> root.full_domain, m_root_domain |-> root.domain,
   m_root_subdomain |-> root.subdomain,
   m_current_full_domain |-> current.full_domain,
   m_current_domain |-> current.domain,
   m_current_subdomain |-> current.subdomain,
   m_image_name |-> IF dir.query # npos
                    THEN parse_image_name_from_url(dir.url) ELSE << >>,
   ret |-> NULLP]

html_url_format(root_url) ==
  url_constructed(root_url, find_last_directory(root_url),
                  parse_domain(find_last_directory(root_url).url, << >>),
                  parse_domain(root_url, << >>))

\* Lines 2254-2261: the number of "../" that the path starts with.
FolderLevels(path) ==
  First({n \in 1..(Len(path) + 1) : ~StartsWith(path, 3 * n, UP)})

\* Lines 2262-2271: one slash back for each level while there is one.
RECURSIVE GoUp(_, _, _)
GoUp(m_root_url, lastSlash, folderLevelsToGoUp) ==
  IF folderLevelsToGoUp = 0
     \/ rfind(m_root_url, 47, SizeT(lastSlash - 1)) = npos
  THEN lastSlash
  ELSE GoUp(m_root_url, rfind(m_root_url, 47, SizeT(lastSlash - 1)),
            folderLevelsToGoUp - 1)

\* Lines 2272-2277: a slash of the protocol is replaced by the one that
\* follows the domain.
PastProtocolKept(m_root_url, lastSlash) == lastSlash

PastProtocol(m_root_url, lastSlash) ==
  IF lastSlash < SizeT(Len(m_root_url) - 2) /\ lastSlash > 0
     /\ is_either(47, At(m_root_url, lastSlash - 1),
                  At(m_root_url, lastSlash + 1))
  THEN find(m_root_url, 47, lastSlash + 2)
  ELSE lastSlash

\* Lines 2278-2281.
UpTo(m_root_url, lastSlash) ==
  IF lastSlash = npos THEN m_root_url
  ELSE substr(m_root_url, 0, lastSlash + 1)

\* Lines 2250-2283: a path that goes up a few folders.
url_parent(u, path, text_length, levels) ==
  UpTo(u.m_root_url,
       PastProtocol(u.m_root_url,
                    GoUp(u.m_root_url, SizeT(u.m_last_slash - 1), levels)))
  \o Slice(path, 3 * levels, text_length - 3 * levels)

\* Lines 2239-2244: a path from the root of the domain.
url_rooted(full_domain, path, text_length) ==
  (IF Len(full_domain) > 1 /\ full_domain[Len(full_domain)] # 47
   THEN Append(full_domain, 47) ELSE full_domain)
  \o Slice(path, 1, text_length - 1)

\* Lines 2228-2290: the url that the path stands for.
url_assigned(u, path, text_length) ==
  CASE is_absolute_url(path) -> Slice(path, 0, text_length)
    [] ~is_absolute_url(path) /\ At(path, 0) = 63 /\ u.m_query # npos ->
         substr(u.m_root_url, 0, u.m_query) \o Slice(path, 0, text_length)
    [] OTHER ->
         CASE At(path, 0) = 47 ->
                url_rooted(u.m_root_full_domain, path, text_length)
           [] At(path, 0) # 47 /\ StartsWithI(path, 0, DOT_SLASH) ->
                substr(u.m_root_url, 0, u.m_last_slash + 1)
                \o Slice(path, 2, text_length - 2)
           [] At(path, 0) # 47 /\ ~StartsWithI(path, 0, DOT_SLASH)
              /\ StartsWith(path, 0, UP) ->
                url_parent(u, path, text_length, FolderLevels(path))
           [] OTHER ->
                substr(u.m_root_url, 0, u.m_last_slash + 1)
                \o Slice(path, 0, text_length)

\* Lines 2292-2295: a bookmark is chopped off.
url_bookmark(url) ==
  IF rfind(url, 35, npos) # npos THEN substr(url, 0, rfind(url, 35, npos))
  ELSE url

\* Lines 2297-2302: the image of the page's url ends a folder path.
url_image(u, url, is_image) ==
  IF is_image /\ Len(url) > 1 /\ url[Len(url)] = 47
  THEN url \o u.m_image_name ELSE url

\* Lines 2304-2309.
url_finished(u, url, current) ==
  [u EXCEPT !.m_current_url = replace_all_spaces(url),
            !.m_current_full_domain = current.full_domain,
            !.m_current_domain = current.domain,
            !.m_current_subdomain = current.subdomain,
            !.ret = replace_all_spaces(url)]

url_parsed(u, url) ==
  url_finished(u, url, parse_domain(url, u.m_current_subdomain))

\* html_url_format::operator()
url_format(u, path, isnull, text_length, is_image) ==
  IF isnull \/ text_length = 0 THEN [u EXCEPT !.ret = NULLP]
  ELSE url_parsed(u, url_image(u, url_bookmark(
                          url_assigned(u, path, text_length)), is_image))

(***************************************************************************)
(* javascript_hyperlink_parse and html_hyperlink_parse                     *)
(*                                                                         *)
(* A scanner is the record of the fields of one object; ret is what its    *)
(* last call of operator() returned.                                       *)
(***************************************************************************)
\* is_unsafe_uri_char: the characters that a link never holds.
is_unsafe_uri_char(c) ==
  c \in {32, 34, 35, 37, 60, 62, 91, 92, 93, 94, 96, 123, 124, 125, 126}

\* A javascript_hyperlink_parse after construction.
JsFresh ==
  [m_js_text_start |-> NULLP, m_js_text_end |-> NULLP,
   m_current_hyperlink_length |-> 0, ret |-> NULLP]

\* javascript_hyperlink_parse::set
js_set(j, js_text, length) ==
  [j EXCEPT !.m_js_text_start = js_text, !.m_js_text_end = js_text + length,
            !.m_current_hyperlink_length = 0]

\* Lines 1942-1966: the literal from first to endQuote is a link when it has a
\* file extension of three or four characters and no unsafe character.
js_is_link(s, first, length) ==
  /\ ~(length < 6 \/ (At(s, first + length - 4) # 46
                      /\ At(s, first + length - 5) # 46))
  /\ \A i \in 0..(length - 1) : ~is_unsafe_uri_char(At(s, first + i))

RECURSIVE js_scan(_, _)

\* Lines 1937-1969: a literal that ends at endQuote.
js_literal(j, s, first, endQuote) ==
  IF endQuote = NULLP \/ ~(endQuote < j.m_js_text_end)
  THEN [j EXCEPT !.m_js_text_start = first, !.ret = NULLP]
  ELSE IF js_is_link(s, first, endQuote - first)
  THEN [j EXCEPT !.m_js_text_start = first,
                 !.m_current_hyperlink_length = endQuote - first,
                 !.ret = first]
  ELSE js_scan([j EXCEPT !.m_js_text_start = endQuote + 1,
                         !.m_current_hyperlink_length = 0], s)

\* Lines 1933-1972: the next quote is at quote.
js_quote(j, s, quote) ==
  IF quote # NULLP /\ quote < j.m_js_text_end
  THEN js_literal(j, s, quote + 1, wcschr(s, quote + 1, 34))
  ELSE [j EXCEPT !.m_js_text_start = quote, !.ret = NULLP]

\* Lines 1931-1973: the loop of the scanner.
js_scan(j, s) ==
  Once(LAMBDA jj : js_quote(jj, s, wcschr(s, jj.m_js_text_start, 34)), j)

\* Lines 1925-1929: the scanner jumps over the link it returned last.
js_jump(j) ==
  [j EXCEPT !.m_js_text_start =
              @ + (IF j.m_current_hyperlink_length > 0
                   THEN j.m_current_hyperlink_length + 1 ELSE 0)]

js_jumped(j, s) ==
  IF j.m_js_text_start >= j.m_js_text_end THEN [j EXCEPT !.ret = NULLP]
  ELSE js_scan(j, s)

\* javascript_hyperlink_parse::operator().  A scanner left past the end of
\* the buffer reads a character there at line 1922: whatever it reads, the
\* call returns null at line 1922 or at line 1928.
js_next(j, s) ==
  IF j.m_js_text_end = NULLP \/ j.m_js_text_start = NULLP
     \/ j.m_js_text_start >= Len(s)
  THEN [j EXCEPT !.ret = NULLP]
  ELSE js_jumped(js_jump(j), s)

\* html_hyperlink_parse::html_hyperlink_parse, lines 2020-2045: the link of
\* the base element, which starts href= at base.
hyperlink_base_until(base, endQuote) ==
  IF endQuote = NULLP THEN [m_base |-> NULLP, m_base_length |-> 0]
  ELSE [m_base |-> base, m_base_length |-> endQuote - base]

hyperlink_base_link(s, firstLinkChar, base) ==
  IF At(s, base) = NUL THEN [m_base |-> NULLP, m_base_length |-> 0]
  ELSE IF firstLinkChar = 34 \/ firstLinkChar = 39
  THEN hyperlink_base_until(base, strcspn_pointer(s, base, {34, 39}))
  ELSE hyperlink_base_until(
         base - 1, strcspn_pointer(s, base - 1, {32, 13, 10, 9, 62}))

hyperlink_base_at(s, base) ==
  IF base = NULLP THEN [m_base |-> NULLP, m_base_length |-> 0]
  ELSE hyperlink_base_link(
         s, At(s, base + 5),
         First({q \in (base + 6)..Greater(base + 6, Len(s)) :
                  ~iswspace(At(s, q)) \/ At(s, q) = NUL}))

\* Lines 2010-2019: the base element of the head.
hyperlink_base_in(s, headStart) ==
  IF headStart = NULLP \/ stristr(s, headStart, W(<<"<","b","a","s","e">>)) = NULLP
  THEN hyperlink_base_at(s, NULLP)
  ELSE hyperlink_base_at(
         s, stristr(s, stristr(s, headStart, W(<<"<","b","a","s","e">>)),
                    W(<<"h","r","e","f","=">>)))

\* html_hyperlink_parse::html_hyperlink_parse; null is a null html_text.
\* by is history: the scanner that gave the link returned last.
hyperlink_constructed(null, length, include_image_links, base) ==
  [m_html_text |-> IF null THEN NULLP ELSE 0,
   m_html_text_end |-> IF null THEN NULLP ELSE length,
   m_current_hyperlink_length |-> 0,
   m_current_link_is_image |-> FALSE,
   m_current_link_is_javascript |-> FALSE,
   m_inside_of_script_section |-> FALSE,
   m_include_image_links |-> include_image_links,
   m_base |-> base.m_base, m_base_length |-> base.m_base_length,
   m_javascript_hyperlink_parse |-> JsFresh,
   ret |-> NULLP, by |-> "new"]

html_hyperlink_parse(s, null, length, include_image_links) ==
  hyperlink_constructed(
    null, length, include_image_links,
    hyperlink_base_in(s, IF null THEN NULLP
                         ELSE stristr(s, 0, W(<<"<","h","e","a","d">>))))

\* The call returns the link of that length at link.
hyperlink_found(h, link, length) ==
  [h EXCEPT !.m_html_text = link, !.m_current_hyperlink_length = length,
            !.ret = link, !.by = "tags"]

\* Lines 2065-2070 and 2119-2125: m_javascript_hyperlink_parse, called into
\* j, returned a link.
hyperlink_of_script(h, j) ==
  [h EXCEPT !.m_javascript_hyperlink_parse = j,
            !.m_current_link_is_image = FALSE,
            !.m_current_link_is_javascript = FALSE,
            !.m_current_hyperlink_length = j.m_current_hyperlink_length,
            !.ret = j.ret, !.by = "script"]

\* The scanner returns null and starts again at the head of the buffer.
hyperlink_none_rewinding(h) ==
  [h EXCEPT !.ret = NULLP, !.by = "none", !.m_html_text = 0]

\* Lines 2084, 2187-2192: the scanner returns null.
hyperlink_none(h) == [h EXCEPT !.ret = NULLP, !.by = "none"]

RECURSIVE hyperlink_scan(_, _)

\* Lines 2106-2133: an element with a src, read into src after the scan moved
\* four characters on; j is m_javascript_hyperlink_parse after the call of
\* line 2119.
hyperlink_src(h, s, src, j) ==
  IF src.first # NULLP THEN hyperlink_found(h, src.first, src.second)
  ELSE IF h.m_inside_of_script_section
  THEN IF j.ret # NULLP THEN hyperlink_of_script(h, j)
       ELSE hyperlink_scan([h EXCEPT !.m_javascript_hyperlink_parse = j,
                                     !.m_inside_of_script_section = FALSE], s)
  ELSE hyperlink_scan(h, s)

\* Lines 2135-2150: an anchor, a link or an area, after the scan moved past
\* its '<'.
hyperlink_href(h, s, attrib) ==
  IF attrib.first # NULLP /\ attrib.second > 0
  THEN hyperlink_found(h, attrib.first, attrib.second)
  ELSE hyperlink_scan(h, s)

\* Lines 2161-2181: the url of a refresh starts at link, past white space and
\* single quotes, and ends at endOfTag.
hyperlink_refresh_until(h, s, link, endOfTag) ==
  IF At(s, link) = NUL THEN hyperlink_none([h EXCEPT !.m_html_text = link])
  ELSE IF endOfTag = NULLP \/ endOfTag > h.m_html_text_end
  THEN hyperlink_scan([h EXCEPT !.m_html_text = link], s)
  ELSE hyperlink_found(h, link, endOfTag - link)

hyperlink_refresh_from(h, s, link) ==
  Once(LAMBDA endOfTag : hyperlink_refresh_until(h, s, link, endOfTag),
       strcspn_pointer(s, link, {39, 34, 62}))

\* Lines 2157-2183: a refresh whose "url=" is at url.
hyperlink_refresh(h, s, url) ==
  IF url # NULLP /\ url < h.m_html_text_end
  THEN IF At(s, url + 4) = NUL
       THEN hyperlink_none([h EXCEPT !.m_html_text = url + 4])
       ELSE Once(LAMBDA link : hyperlink_refresh_from(h, s, link),
                 First({q \in (url + 4)..Greater(url + 4, Len(s)) :
                          At(s, q) = NUL
                          \/ (~iswspace(At(s, q)) /\ At(s, q) # 39)}))
  ELSE hyperlink_scan(h, s)

\* Lines 2151-2185: a meta element, after the scan moved past its name.
hyperlink_meta(h, s) ==
  IF Once(LAMBDA httpEquiv :
            stricmp_eq(httpEquiv, W(<<"r","e","f","r","e","s","h">>)),
          read_attribute_as_string(
            s, h.m_html_text,
            W(<<"h","t","t","p","-","e","q","u","i","v">>), FALSE, FALSE))
  THEN Once(LAMBDA url : hyperlink_refresh(h, s, url),
            find_tag(s, h.m_html_text, W(<<"u","r","l","=">>), TRUE))
  ELSE hyperlink_scan(h, s)

\* Lines 2098-2105: the body of a script element that has its end is handed
\* to m_javascript_hyperlink_parse.
hyperlink_script_set(j, limit, endAngle, endOfScriptSection) ==
  IF endAngle # NULLP /\ endAngle < limit
     /\ endOfScriptSection # NULLP /\ endOfScriptSection < limit
  THEN js_set(j, endAngle, endOfScriptSection - endAngle)
  ELSE j

\* Lines 2096-2105: the flags of the element at m_html_text.
hyperlink_flags(h, s, is_script) ==
  [h EXCEPT
     !.m_current_link_is_image =
        compare_element(s, h.m_html_text + 1, W(<<"i","m","g">>), FALSE),
     !.m_inside_of_script_section = is_script,
     !.m_current_link_is_javascript = is_script,
     !.m_javascript_hyperlink_parse =
        IF is_script
        THEN hyperlink_script_set(
               @, h.m_html_text_end, find_close_tag(s, h.m_html_text),
               stristr(s, h.m_html_text,
                       W(<<"<","/","s","c","r","i","p","t",">">>)))
        ELSE @]

\* Lines 2108-2111, 2136-2138 and 2152: the kind of the element at text.
hyperlink_kind(h, s, text) ==
  CASE (h.m_include_image_links /\ h.m_current_link_is_image)
       \/ h.m_current_link_is_javascript
       \/ compare_element(s, text, W(<<"f","r","a","m","e">>), FALSE)
       \/ compare_element(s, text, W(<<"i","f","r","a","m","e">>), FALSE)
         -> "src"
    [] OTHER ->
         CASE compare_element(s, text, W(<<"a">>), FALSE)
              \/ compare_element(s, text, W(<<"l","i","n","k">>), FALSE)
              \/ compare_element(s, text, W(<<"a","r","e","a">>), FALSE)
                -> "href"
           [] OTHER ->
                IF compare_element(s, text, W(<<"m","e","t","a">>), FALSE)
                THEN "meta" ELSE "other"

\* Lines 2107-2190: the element at m_html_text, of that kind, after its flags
\* were set.
hyperlink_element(h, s, kind) ==
  CASE kind = "src" ->
         Once(LAMBDA t :
                hyperlink_src([h EXCEPT !.m_html_text = @ + 4], s, t[1], t[2]),
              <<read_attribute(s, h.m_html_text + 4, W(<<"s","r","c">>),
                               FALSE, TRUE),
                IF h.m_inside_of_script_section
                THEN js_next(h.m_javascript_hyperlink_parse, s)
                ELSE h.m_javascript_hyperlink_parse>>)
    [] kind = "href" ->
         Once(LAMBDA attrib :
                hyperlink_href([h EXCEPT !.m_html_text = @ + 1], s, attrib),
              read_attribute(s, h.m_html_text + 1, W(<<"h","r","e","f">>),
                             FALSE, TRUE))
    [] kind = "meta" -> hyperlink_meta([h EXCEPT !.m_html_text = @ + 5], s)
    [] OTHER -> hyperlink_scan([h EXCEPT !.m_html_text = @ + 1], s)

hyperlink_flagged(h, s) ==
  Once(LAMBDA hh :
         Once(LAMBDA kind : hyperlink_element(hh, s, kind),
              hyperlink_kind(hh, s, hh.m_html_text + 1)),
       h)

\* Lines 2088-2192: the next '<' is at tag.
hyperlink_tag(h, s, tag) ==
  IF tag # NULLP /\ tag + 1 < h.m_html_text_end
  THEN IF At(s, tag + 1) = 47
       THEN hyperlink_scan([h EXCEPT !.m_html_text = tag + 1], s)
       ELSE hyperlink_flagged(
              hyperlink_flags(
                [h EXCEPT !.m_html_text = tag], s,
                compare_element(s, tag + 1,
                                W(<<"s","c","r","i","p","t">>), FALSE)),
              s)
  ELSE hyperlink_none([h EXCEPT !.m_html_text = tag])

\* Lines 2086-2193: the loop of the scanner.
hyperlink_scan(h, s) ==
  Once(LAMBDA t : hyperlink_tag(t[1], s, t[2]),
       <<h, wcschr(s, h.m_html_text, 60)>>)

\* Lines 2076-2084: the fields are reset and the tags scanned.
hyperlink_reset(h, s) ==
  IF h.m_html_text = NULLP \/ At(s, h.m_html_text) = NUL
  THEN hyperlink_none([h EXCEPT !.m_current_hyperlink_length = 0,
                                !.m_current_link_is_image = FALSE,
                                !.m_current_link_is_javascript = FALSE,
                                !.m_inside_of_script_section = FALSE])
  ELSE hyperlink_scan([h EXCEPT !.m_current_hyperlink_length = 0,
                                !.m_current_link_is_image = FALSE,
                                !.m_current_link_is_javascript = FALSE,
                                !.m_inside_of_script_section = FALSE], s)

\* Lines 2063-2075: inside a script section, m_javascript_hyperlink_parse is
\* called (into j) before anything else.
hyperlink_in_script(h, s, j) ==
  IF j.ret # NULLP THEN hyperlink_of_script(h, j)
  ELSE hyperlink_reset([h EXCEPT !.m_javascript_hyperlink_parse = j], s)

\* html_hyperlink_parse::operator()
hyperlink_next(h, s) ==
  IF h.m_inside_of_script_section
  THEN Once(LAMBDA j : hyperlink_in_script(h, s, j),
            js_next(h.m_javascript_hyperlink_parse, s))
  ELSE hyperlink_reset(h, s)

(***************************************************************************)
(* The documents                                                           *)
(***************************************************************************)
\* A document is the concatenation of at most MaxFrags fragments of one
\* corpus.
MaxFrags == 3

RECURSIVE DocsUpTo(_, _)
DocsUpTo(F, k) ==
  IF k = 0 THEN {<< >>}
  ELSE LET D == DocsUpTo(F, k - 1) IN D \cup {d \o f : d \in D, f \in F}

B_OPEN == W(<<"<","b",">">>)
B_CLOSE == W(<<"<","/","b",">">>)
PRE_OPEN == W(<<"<","p","r","e",">">>)
PRE_CLOSE == W(<<"<","/","p","r","e",">">>)
SUP_OPEN == W(<<"<","s","u","p",">">>)
SUP_CLOSE == W(<<"<","/","s","u","p",">">>)
SUB_OPEN == W(<<"<","s","u","b",">">>)
SUB_CLOSE == W(<<"<","/","S","u","b",">">>)
CDATA_OPEN == W(<<"<","!","[","C","D","A","T","A","[">>)
CDATA_CLOSE == W(<<"]","]",">">>)
SCRIPT_ALERT ==
  W(<<"<","s","c","r","i","p","t",">","a","l","e","r","t","(","1",")",
      "<","/","s","c","r","i","p","t",">">>)
P_HI == W(<<"<","p",">","H","i","<","/","p",">">>)
SCRIPT_OPEN == W(<<"<","s","c","r","i","p","t",">">>)
SCRIPT_CLOSE == W(<<"<","/","S","c","r","i","p","t",">">>)
STYLE_K == W(<<"<","s","t","y","l","e",">","k","<","/","s","t","y","l","e",">">>)
COMMENT_OPEN == W(<<"<","!","-","-">>)
COMMENT_CLOSE == W(<<"-","-",">">>)
B_UNTERMINATED == W(<<"<","b"," ","t">>)
STRAY == W(<<"<"," ">>)
TITLE_A == W(<<"<","t","i","t","l","e",">","A","<","/","t","i","t","l","e",">">>)
TITLE_B == W(<<"<","t","i","t","l","e",">","B","<","/","t","i","t","l","e",">">>)
TITLE_OPEN == W(<<"<","t","i","t","l","e",">">>)
TITLE_CLOSE == W(<<"<","/","t","i","t","l","e",">">>)
SUBJECT_C ==
  W(<<"<","s","u","b","j","e","c","t",">","C","<","/","s","u","b","j","e","c","t",">">>)
META_AUTHOR_A ==
  W(<<"<","m","e","t","a"," ","n","a","m","e","=","\"","a","u","t","h","o","r",
      "\""," ","c","o","n","t","e","n","t","=","\"","A","\"",">">>)
META_AUTHOR_B ==
  W(<<"<","m","e","t","a"," ","n","a","m","e","=","\"","A","u","t","h","o","r",
      "\""," ","c","o","n","t","e","n","t","=","\"","B"," ","&","a","m","p",";",
      " ","C","\"",">">>)
META_KEYWORDS ==
  W(<<"<","m","e","t","a"," ","n","a","m","e","=","k","e","y","w","o","r","d","s",
      " ","c","o","n","t","e","n","t","=","\"","k","\"",">">>)
FONT_SYMBOL ==
  W(<<"<","f","o","n","t"," ","f","a","c","e","=","\"","S","y","m","b","o","l",
      "\"",">">>)
FONT_CLOSE == W(<<"<","/","f","o","n","t",">">>)
FONT_SYMBOL_AB == FONT_SYMBOL \o W(<<"a","b">>)
TEXT_A == W(<<"a">>)
TEXT_AB == W(<<"a","b">>)
TEXT_X == W(<<"x">>)
TEXT_2 == W(<<"2">>)
TEXT_LF == W(<<"\n">>)
TEXT_CRLF == W(<<"c","\r","\n","d">>)
ENT_AMP == W(<<"&","a","m","p",";">>)
ENT_AMP_NOSEMI == W(<<"&","a","m","p">>)
AMPERSAND == W(<<"&">>)
ENT_UNKNOWN == W(<<"&","z","z",";">>)
ENT_UNKNOWN_UPPER == W(<<"&","E","z",";">>)
ENT_DAGGER == W(<<"&","d","a","g","g","e","r",";">>)
ENT_DAGGER_CAPITAL == W(<<"&","D","a","g","g","e","r",";">>)
ENT_DAGGER_UPPER == W(<<"&","D","A","G","G","E","R",";">>)
ENT_AMP_UPPER == W(<<"&","A","M","P",";">>)
NUM_A == W(<<"&","#","6","5",";">>)
NUM_A_HEX == W(<<"&","#","x","4","1",";">>)
NUM_E_ACUTE == W(<<"&","#","X","e","9",";">>)
NUM_SHY == W(<<"&","#","1","7","3",";">>)
NUM_SHY_HEX == W(<<"&","#","x","A","D",";">>)
NUM_ZERO == W(<<"&","#","0",";">>)
NUM_ZERO_HEX == W(<<"&","#","x","0","0",";">>)
NUM_FF == W(<<"&","#","x","F","B","0","0",";">>)
NUM_FI == W(<<"&","#","x","F","B","0","1",";">>)
NUM_FL == W(<<"&","#","6","4","2","5","8",";">>)
NUM_FFI == W(<<"&","#","X","f","b","0","3",";">>)
NUM_FFL == W(<<"&","#","x","F","B","0","4",";">>)
NUM_FT == W(<<"&","#","6","4","2","6","1",";">>)
NUM_ST == W(<<"&","#","x","F","B","0","6",";">>)

\* The corpora: the fragments that the documents of each are made of.
CDATA_SECTION == CDATA_OPEN \o TEXT_X \o CDATA_CLOSE
DOLLAR == W(<<"$">>)
PLACEHOLDER_OPEN == W(<<"$","{">>)
BRACE_CLOSE == W(<<"}">>)
X_BRACE_Y == W(<<"x","}","y">>)
TEXT_SP == W(<<" ">>)
TITLE_QUOTE == W(<<"<","t","i","t","l","e"," ","a","=","\"">>)
QUOTE_END == W(<<"\"",">">>)
META_UNTERMINATED == W(<<"<","m","e","t","a">>)
TITLE_UNTERMINATED == W(<<"<","t","i","t","l","e">>)
BR == W(<<"<","b","r",">">>)
BR_SPACE_SLASH == W(<<"<","b","r"," ","/",">">>)
BR_SLASH == W(<<"<","b","r","/",">">>)
HR == W(<<"<","h","r",">">>)
HR_SLASH == W(<<"<","h","r","/",">">>)
FONT_X_SYMBOL ==
  W(<<"<","f","o","n","t"," ","f","a","c","e","=","\"","x"," ","S","y","m","b","o","l",
      "\"",">">>)
I_FAMILY ==
  W(<<"<","i"," ","s","t","y","l","e","=","\"","f","o","n","t","-","f","a","m","i","l","y",
      ":","S","y","m","b","o","l","\"",">">>)
I_FACE == W(<<"<","i"," ","f","a","c","e","=","S","y","m","b","o","l",">">>)
TEXT_TAB == W(<<"\t">>)

Corpora ==
  {"text", "depth", "skip", "meta", "symbol", "entity", "numeric", "dollar",
   "script", "pair", "bare", "font", "break",
   "twice", "prefix", "quote"}

Frags(c) ==
  CASE c = "text" -> {B_OPEN, B_CLOSE, PRE_OPEN, PRE_CLOSE, TEXT_A, TEXT_LF,
                      TEXT_CRLF, ENT_AMP, ENT_AMP_NOSEMI, AMPERSAND}
    [] c = "depth" -> {PRE_OPEN, PRE_CLOSE, SUP_OPEN, SUP_CLOSE, SUB_OPEN,
                       SUB_CLOSE, TEXT_2, CDATA_OPEN, CDATA_CLOSE}
    [] c = "skip" -> {SCRIPT_ALERT, P_HI, SCRIPT_OPEN, SCRIPT_CLOSE, STYLE_K,
                      COMMENT_OPEN, COMMENT_CLOSE, B_UNTERMINATED, STRAY,
                      TEXT_X}
    [] c = "meta" -> {TITLE_A, TITLE_B, TITLE_OPEN, TITLE_CLOSE, SUBJECT_C,
                      META_AUTHOR_A, META_AUTHOR_B, META_KEYWORDS,
                      ENT_UNKNOWN, PRE_OPEN}
    [] c = "symbol" -> {FONT_SYMBOL, FONT_SYMBOL_AB, FONT_CLOSE, B_OPEN,
                        TEXT_AB, ENT_AMP}
    [] c = "entity" -> {ENT_DAGGER, ENT_DAGGER_CAPITAL, ENT_DAGGER_UPPER,
                        ENT_AMP_UPPER, ENT_UNKNOWN, ENT_UNKNOWN_UPPER,
                        TEXT_A, B_OPEN}
    [] c = "numeric" -> {NUM_A, NUM_A_HEX, NUM_E_ACUTE, NUM_SHY, NUM_SHY_HEX,
                         NUM_ZERO, NUM_ZERO_HEX, NUM_FF, NUM_FI, NUM_FL,
                         NUM_FFI, NUM_FFL, NUM_FT, NUM_ST, TEXT_A}
    [] c = "dollar" -> {DOLLAR, PLACEHOLDER_OPEN, BRACE_CLOSE, X_BRACE_Y,
                        TEXT_A, B_OPEN}
    [] c = "script" -> {SUP_OPEN, SUP_CLOSE, SUB_OPEN, TEXT_2, ENT_AMP,
                        DOLLAR, TEXT_LF}
    [] c = "pair" -> {PRE_OPEN, PRE_CLOSE, SUP_OPEN, SUP_CLOSE, SUB_OPEN,
                      SUB_CLOSE, STRAY, CDATA_SECTION, B_UNTERMINATED, B_OPEN,
                      TEXT_LF}
    [] c = "bare" -> {ENT_AMP_NOSEMI, TEXT_SP, TEXT_TAB, TEXT_LF, B_OPEN,
                      TEXT_A}
    [] c = "font" -> {FONT_SYMBOL, FONT_X_SYMBOL, I_FAMILY, I_FACE, B_OPEN,
                      TEXT_AB}
    [] c = "break" -> {BR, BR_SPACE_SLASH, BR_SLASH, HR, HR_SLASH, TEXT_A}
    [] c = "twice" -> {B_OPEN, TEXT_X, META_UNTERMINATED, TITLE_UNTERMINATED,
                       X_BRACE_Y, PLACEHOLDER_OPEN}
    [] c = "prefix" -> {ENT_AMP_NOSEMI, TEXT_A, TEXT_SP, B_OPEN}
    [] c = "quote" -> {TITLE_QUOTE, QUOTE_END, TITLE_OPEN, TITLE_CLOSE, TEXT_A}

DocsText == DocsUpTo(Frags("text"), MaxFrags)
DocsDepth == DocsUpTo(Frags("depth"), MaxFrags)
DocsSkip == DocsUpTo(Frags("skip"), MaxFrags)
DocsMeta == DocsUpTo(Frags("meta"), MaxFrags)
DocsSymbol == DocsUpTo(Frags("symbol"), MaxFrags)
DocsEntity == DocsUpTo(Frags("entity"), MaxFrags)
DocsNumeric == DocsUpTo(Frags("numeric"), MaxFrags)
DocsDollar == DocsUpTo(Frags("dollar"), MaxFrags)
DocsScript == DocsUpTo(Frags("script"), MaxFrags)
DocsPair == DocsUpTo(Frags("pair"), MaxFrags)
DocsBare == DocsUpTo(Frags("bare"), MaxFrags)
DocsFont == DocsUpTo(Frags("font"), MaxFrags)
DocsBreak == DocsUpTo(Frags("break"), MaxFrags)
DocsTwice == DocsUpTo(Frags("twice"), MaxFrags)
DocsPrefix == DocsUpTo(Frags("prefix"), MaxFrags)
DocsQuote == DocsUpTo(Frags("quote"), MaxFrags)

Docs(c) ==
  CASE c = "text" -> DocsText
    [] c = "depth" -> DocsDepth
    [] c = "skip" -> DocsSkip
    [] c = "meta" -> DocsMeta
    [] c = "symbol" -> DocsSymbol
    [] c = "entity" -> DocsEntity
    [] c = "numeric" -> DocsNumeric
    [] c = "dollar" -> DocsDollar
    [] c = "script" -> DocsScript
    [] c = "pair" -> DocsPair
    [] c = "bare" -> DocsBare
    [] c = "font" -> DocsFont
    [] c = "break" -> DocsBreak
    [] c = "twice" -> DocsTwice
    [] c = "prefix" -> DocsPrefix
    [] c = "quote" -> DocsQuote

\* The values of preserve_newlines that the calls of a corpus use.
Preserve(c) == IF c = "text" THEN BOOLEAN ELSE {FALSE}

\* The values of include_outer_text that the calls of a corpus use.
Outer(c) == IF c = "depth" THEN BOOLEAN ELSE {TRUE}

\* The values of text_length that the calls of a corpus use on doc: the whole
\* of the buffer or, for the corpus of prefixes, any part of it.
Lengths(c, doc) == IF c = "prefix" THEN 1..Len(doc) ELSE {Len(doc)}

\* The calls made on an engine that has already been used: a null buffer, an
\* empty buffer, a length of zero, and a few documents.
Probe(doc, isnull, len, inc, pres) ==
  [doc |-> doc, isnull |-> isnull, len |-> len, inc |-> inc, pres |-> pres]

Probes ==
  {Probe(<< >>, TRUE, 4, TRUE, FALSE),
   Probe(<< >>, FALSE, 4, TRUE, FALSE),
   Probe(TEXT_CRLF, FALSE, 0, TRUE, TRUE),
   Probe(TEXT_CRLF, FALSE, Len(TEXT_CRLF), TRUE, FALSE),
   Probe(TEXT_2, FALSE, Len(TEXT_2), FALSE, TRUE),
   Probe(TITLE_A, FALSE, Len(TITLE_A), TRUE, FALSE),
   Probe(ENT_UNKNOWN, FALSE, Len(ENT_UNKNOWN), TRUE, FALSE)}

(***************************************************************************)
(* The state machine                                                       *)
(***************************************************************************)
VARIABLES
  html_text, html_null, text_length, include_outer_text, preserve_newlines,
  m_filtered_text, m_log,
  m_title, m_author, m_description, m_keywords, m_subject,
  m_is_in_preformatted_text_block_stack, m_superscript_stack,
  m_subscript_stack,
  start, end, isSymbolFontSection, previousLength, copiedOverText,
  pc, result,
  spans, skipped, unterm, cmt, writes,
  corpus, prior,
  fn, fn_text, fn_arg, fn_ret,
  link_text, link_parse, link_yield

args ==
  <<html_text, html_null, text_length, include_outer_text, preserve_newlines>>

vars ==
  <<html_text, html_null, text_length, include_outer_text, preserve_newlines,
    m_filtered_text, m_log,
    m_title, m_author, m_description, m_keywords, m_subject,
    m_is_in_preformatted_text_block_stack, m_superscript_stack,
    m_subscript_stack,
    start, end, isSymbolFontSection, previousLength, copiedOverText,
    pc, result,
    spans, skipped, unterm, cmt, writes,
    corpus, prior,
    fn, fn_text, fn_arg, fn_ret,
    link_text, link_parse, link_yield>>

\* The variables of the extraction engine and of its calls.
engine_vars ==
  <<html_text, html_null, text_length, include_outer_text, preserve_newlines,
    m_filtered_text, m_log,
    m_title, m_author, m_description, m_keywords, m_subject,
    m_is_in_preformatted_text_block_stack, m_superscript_stack,
    m_subscript_stack,
    start, end, isSymbolFontSection, previousLength, copiedOverText,
    pc, result,
    spans, skipped, unterm, cmt, writes,
    corpus, prior>>

\* The variables of a call of one of the static functions: the function fn,
\* the buffer fn_text it is given, its other arguments fn_arg and what it
\* returned, fn_ret (meaningful once fn_arg.called holds).
fn_vars == <<fn, fn_text, fn_arg, fn_ret>>

\* The variables of a hyperlink scanner: the buffer link_text it was
\* constructed on, the html_hyperlink_parse object link_parse, and the
\* history link_yield of the links its calls returned.
link_vars == <<link_text, link_parse, link_yield>>

\* No hyperlink scanner exists.
LinksAtRest ==
  /\ link_text = << >>
  /\ link_parse = html_hyperlink_parse(<< >>, TRUE, 0, FALSE)
  /\ link_yield = << >>

\* No static function is under test.
FnAtRest ==
  /\ fn = "none"
  /\ fn_text = << >>
  /\ fn_arg = [called |-> FALSE]
  /\ fn_ret = NULLP

\* The engine as the record the operators above work on.
Engine ==
  [text |-> m_filtered_text, log |-> m_log,
   title |-> m_title, author |-> m_author, description |-> m_description,
   keywords |-> m_keywords, subject |-> m_subject,
   pre |-> m_is_in_preformatted_text_block_stack,
   sup |-> m_superscript_stack, sub |-> m_subscript_stack,
   start |-> start, end |-> end,
   sym |-> isSymbolFontSection, prev |-> previousLength,
   copied |-> copiedOverText,
   pc |-> pc, result |-> result,
   spans |-> spans, skipped |-> skipped, unterm |-> unterm, cmt |-> cmt,
   writes |-> writes]

Becomes(e) ==
  \E r \in {e} :
     /\ m_filtered_text' = r.text
     /\ m_log' = r.log
     /\ m_title' = r.title
     /\ m_author' = r.author
     /\ m_description' = r.description
     /\ m_keywords' = r.keywords
     /\ m_subject' = r.subject
     /\ m_is_in_preformatted_text_block_stack' = r.pre
     /\ m_superscript_stack' = r.sup
     /\ m_subscript_stack' = r.sub
     /\ start' = r.start
     /\ end' = r.end
     /\ isSymbolFontSection' = r.sym
     /\ previousLength' = r.prev
     /\ copiedOverText' = r.copied
     /\ pc' = r.pc
     /\ result' = r.result
     /\ spans' = r.spans
     /\ skipped' = r.skipped
     /\ unterm' = r.unterm
     /\ cmt' = r.cmt
     /\ writes' = r.writes
     /\ UNCHANGED <<fn_vars, link_vars>>

\* What the engine holds when a call is made on it.
Dirt ==
  [text |-> m_filtered_text # << >>,
   log |-> m_log # << >>,
   meta |-> <<m_title, m_author, m_description, m_keywords, m_subject>>
              # <<<< >>, << >>, << >>, << >>, << >>>>,
   depth |-> <<m_is_in_preformatted_text_block_stack, m_superscript_stack,
               m_subscript_stack>> # <<0, 0, 0>>,
   used |-> pc = "done"]

\* An engine after construction, before any call.
EngineAtRest ==
  /\ html_text = << >>
  /\ html_null = TRUE
  /\ text_length = 0
  /\ include_outer_text = TRUE
  /\ preserve_newlines = FALSE
  /\ m_filtered_text = EngineFresh.text
  /\ m_log = EngineFresh.log
  /\ m_title = EngineFresh.title
  /\ m_author = EngineFresh.author
  /\ m_description = EngineFresh.description
  /\ m_keywords = EngineFresh.keywords
  /\ m_subject = EngineFresh.subject
  /\ m_is_in_preformatted_text_block_stack = EngineFresh.pre
  /\ m_superscript_stack = EngineFresh.sup
  /\ m_subscript_stack = EngineFresh.sub
  /\ start = EngineFresh.start
  /\ end = EngineFresh.end
  /\ isSymbolFontSection = EngineFresh.sym
  /\ previousLength = EngineFresh.prev
  /\ copiedOverText = EngineFresh.copied
  /\ pc = EngineFresh.pc
  /\ result = EngineFresh.result
  /\ spans = EngineFresh.spans
  /\ skipped = EngineFresh.skipped
  /\ unterm = EngineFresh.unterm
  /\ cmt = EngineFresh.cmt
  /\ writes = EngineFresh.writes
  /\ prior = [text |-> FALSE, log |-> FALSE, meta |-> FALSE, depth |-> FALSE,
              used |-> FALSE]

Init ==
  /\ corpus \in Corpora
  /\ EngineAtRest
  /\ FnAtRest
  /\ LinksAtRest

\* operator() is entered (lines 645-698).
Enters(doc, isnull, len, inc, pres) ==
  /\ html_text' = doc
  /\ html_null' = isnull
  /\ text_length' = len
  /\ include_outer_text' = inc
  /\ preserve_newlines' = pres
  /\ prior' = Dirt
  /\ Becomes(Enter(Engine, doc, isnull, len, inc, pres))
  /\ UNCHANGED corpus

\* The first call on an engine: a document of the corpus.
Call ==
  /\ pc = "idle"
  /\ \E doc \in Docs(corpus), inc \in Outer(corpus), pres \in Preserve(corpus) :
       \E len \in Lengths(corpus, doc) : Enters(doc, FALSE, len, inc, pres)

\* A later call on the same engine.
CallAgain ==
  /\ pc = "done"
  /\ \E p \in Probes : Enters(p.doc, p.isnull, p.len, p.inc, p.pres)

\* One pass of the main loop up to the end of the tag at start
\* (lines 700-1090).
DispatchTag ==
  /\ pc = "loop"
  /\ Becomes(Dispatch(Engine, html_text, text_length))
  /\ UNCHANGED <<args, corpus, prior>>

\* The next tag is found and the text before it decoded (lines 1091-1098).
NextTag ==
  /\ pc = "next"
  /\ Becomes(Between(Engine, html_text, text_length))
  /\ UNCHANGED <<args, corpus, prior>>

\* Lines 1103-1109.
SymbolFontPop ==
  /\ pc = "symbol"
  /\ Becomes(SymbolPop(Engine))
  /\ UNCHANGED <<args, corpus, prior>>

\* Lines 1110-1113.
SymbolFontPush ==
  /\ pc = "sympush"
  /\ Becomes(SymbolPush(Engine))
  /\ UNCHANGED <<args, corpus, prior>>

\* Lines 1114-1131.
CloseTag ==
  /\ pc = "close"
  /\ Becomes(CloseCheck(Engine, html_text))
  /\ UNCHANGED <<args, corpus, prior>>

\* Lines 1134-1140.
Return ==
  /\ pc = "tail"
  /\ Becomes(Finish(Engine, html_text, text_length, include_outer_text))
  /\ UNCHANGED <<args, corpus, prior>>

Next ==
  \/ Call
  \/ CallAgain
  \/ DispatchTag
  \/ NextTag
  \/ SymbolFontPop
  \/ SymbolFontPush
  \/ CloseTag
  \/ Return

Spec == Init /\ [][Next]_vars

(***************************************************************************)
(* Properties                                                              *)
(***************************************************************************)
IsPrefix(a, b) == Len(a) <= Len(b) /\ SubSeq(b, 1, Len(a)) = a

IsLineEnd(c) == c \in {10, 13}
LineEnds(str) == SelectSeq(str, IsLineEnd)

MetaData == <<m_title, m_author, m_description, m_keywords, m_subject>>
Depths ==
  <<m_is_in_preformatted_text_block_stack, m_superscript_stack,
    m_subscript_stack>>

\* What a span of the input held, and what it put in the output.
SpanIn(sp) == Slice(html_text, sp.from, sp.to - sp.from)
SpanOut(sp) == SubSeq(m_filtered_text, sp.o1 + 1, sp.o2)

\* ---- C1 ----
\* The document is <b>T</b> with no '<' and no '>' in T.
BoldText ==
  SubSeq(html_text, Len(B_OPEN) + 1, Len(html_text) - Len(B_CLOSE))
IsBoldDocument ==
  /\ ~html_null
  /\ text_length = Len(html_text)
  /\ Len(html_text) >= Len(B_OPEN) + Len(B_CLOSE)
  /\ IsPrefix(B_OPEN, html_text)
  /\ SubSeq(html_text, Len(html_text) - Len(B_CLOSE) + 1, Len(html_text))
       = B_CLOSE
  /\ \A i \in DOMAIN BoldText : BoldText[i] \notin {60, 62}

\* The decoded form of T: what the raw-text decoder makes of T in a buffer of
\* its own.
DecodedForm(T) ==
  parse_raw_text([EngineFresh EXCEPT !.pre = IF preserve_newlines THEN 1 ELSE 0],
                 T, 0, Len(T)).text

\* C1: extracting <b>T</b>, T without '<' and '>', yields exactly the
\* decoded form of T, and no character of the tags <b> and </b> is in the
\* output.
C1_BoldYieldsDecodedText ==
  (pc = "done" /\ IsBoldDocument) =>
     /\ m_filtered_text = DecodedForm(BoldText)
     /\ \A i \in DOMAIN m_filtered_text : m_filtered_text[i] \notin {60, 62}

\* ---- C2 ----
AbsentInput == html_null \/ At(html_text, 0) = NUL \/ text_length = 0

\* C2: a call with a null buffer, a buffer whose first character is NUL, or
\* a length of zero returns the absent result with an output of length zero,
\* and the log, the five metadata fields and the depth counters are reset by
\* that call all the same.
C2_AbsentInputResets ==
  (pc = "done" /\ AbsentInput) =>
     /\ result = "absent"
     /\ Len(m_filtered_text) = 0
     /\ m_log = << >>
     /\ MetaData = <<<< >>, << >>, << >>, << >>, << >>>>
     /\ Depths = <<IF preserve_newlines THEN 1 ELSE 0, 0, 0>>

\* C2, reached: a null buffer handed to an engine that held text, a log,
\* metadata and an open pre section.
C2_Reached ==
  /\ pc = "done" /\ html_null /\ result = "absent"
  /\ prior.used /\ prior.text /\ prior.log /\ prior.meta /\ prior.depth

\* ---- C3 ----
\* C3: what a call leaves (result, output, metadata, diagnostics) is what the
\* same call leaves on an engine never used before, whatever the engine was
\* called on earlier.
C3_ResultDependsOnArguments ==
  pc = "done" =>
     LET fresh == IF html_null
                  THEN Run(Enter(EngineFresh, html_text, TRUE, text_length,
                                 include_outer_text, preserve_newlines),
                           html_text, text_length, include_outer_text)
                  ELSE Extract(html_text, text_length, include_outer_text,
                               preserve_newlines)
     IN /\ result = fresh.result
        /\ m_filtered_text = fresh.text
        /\ MetaData = <<fresh.title, fresh.author, fresh.description,
                        fresh.keywords, fresh.subject>>
        /\ m_log = fresh.log

\* C3, reached: a document with line ends decoded by an engine that an
\* earlier call left inside a pre section, with text and a log.
C3_Reached ==
  /\ pc = "done" /\ result = "text" /\ html_text = TEXT_CRLF
  /\ prior.used /\ prior.depth /\ prior.text /\ prior.log

\* ---- C4 ----
\* C4: the pre, sup and sub depths are never negative; a closing tag met at
\* depth zero leaves the depth at zero.
C4_DepthsNeverNegative ==
  /\ m_is_in_preformatted_text_block_stack >= 0
  /\ m_superscript_stack >= 0
  /\ m_subscript_stack >= 0

\* C4, reached: the second </pre> of <pre></pre></pre> has been checked with
\* the depth already at zero.
C4_Reached ==
  /\ html_text = PRE_OPEN \o PRE_CLOSE \o PRE_CLOSE
  /\ pc = "loop" /\ start = Len(PRE_OPEN) + Len(PRE_CLOSE)
  /\ m_is_in_preformatted_text_block_stack = 0

\* ---- C5 ----
FieldNow(field) ==
  CASE field = "title" -> m_title
    [] field = "author" -> m_author
    [] field = "description" -> m_description
    [] field = "keywords" -> m_keywords
    [] field = "subject" -> m_subject

\* C5: during one call each metadata field is set at most once, and the
\* value a field holds is the one of its first occurrence in the document.
C5_FirstOccurrenceWins ==
  \A i \in DOMAIN writes :
     /\ \A j \in DOMAIN writes : writes[j].field = writes[i].field => j = i
     /\ FieldNow(writes[i].field) = writes[i].value

\* ---- C6 ----
InCall == pc \notin {"idle", "done"}

\* C6 as stated: between two steps of one call the output buffer as it was
\* is a prefix of the output buffer as it becomes.
C6_OutputOnlyGrows ==
  [][InCall => IsPrefix(m_filtered_text, m_filtered_text')]_vars

\* How much of the output the next step must keep: all of it, but for the
\* step that takes the text of a Symbol-font section back off the output,
\* which must keep what was there before that text was decoded.
Kept == IF pc = "symbol" THEN previousLength ELSE Len(m_filtered_text)

\* C6, amended: between two steps of one call the output only grows, except
\* that the text of a Symbol-font section is taken off again and appended
\* remapped; the characters written before that section's text are never
\* removed or replaced.
C6_OutputGrowsButForSymbolFont ==
  [][InCall =>
       /\ Kept <= Len(m_filtered_text)
       /\ Len(m_filtered_text') >= Kept
       /\ SubSeq(m_filtered_text', 1, Kept) = SubSeq(m_filtered_text, 1, Kept)
    ]_vars

\* C6, reached: the text of a Symbol-font section has been taken off the
\* output, which keeps the text decoded before it.
C6_Reached ==
  /\ pc = "sympush"
  /\ Len(copiedOverText) > 0
  /\ previousLength > 0
  /\ Len(m_filtered_text) = previousLength

\* ---- C7 ----
\* No span decoded or copied to the output overlaps the range r of the input.
Untouched(r) ==
  \A i \in DOMAIN spans : spans[i].to <= r[1] \/ spans[i].from >= r[2]

RawSpans == {i \in DOMAIN spans : spans[i].kind = "raw"}
HasLineEnd(str) == \E i \in DOMAIN str : IsLineEnd(str[i])

IsPlainSpan(sp) ==
  /\ sp.kind = "raw"
  /\ \A k \in DOMAIN SpanIn(sp) : SpanIn(sp)[k] \notin {36, 38}
  /\ sp.sup = 0 /\ sp.sub = 0 /\ ~sp.sym

SpacedOut(str) ==
  [k \in DOMAIN str |-> IF IsLineEnd(str[k]) THEN 32 ELSE str[k]]

C9_UnterminatedTagIsText ==
  pc = "done" =>
     \A r \in unterm :
        \E i \in RawSpans : spans[i].from = r[1] /\ spans[i].to = r[2]

SeqsUpTo(F, k) == UNION {[1..n -> F] : n \in 0..k}

RECURSIVE Flatten(_)
Flatten(frs) == IF frs = << >> THEN << >> ELSE Head(frs) \o Flatten(Tail(frs))

\* The offset of fragment k in the concatenation of frs.
Offset(frs, k) == Len(Flatten(SubSeq(frs, 1, k - 1)))

\* The arguments of find_closing_element: an opening tag of the element div
\* followed by at most MaxNest fragments, and a section end anywhere in the
\* buffer.
MaxNest == 4
DIV == W(<<"d","i","v">>)
DIV_OPEN == W(<<"<","d","i","v",">">>)
DIV_OPEN_ID == W(<<"<","D","I","v"," ","i","d","=","a",">">>)
DIV_CLOSE == W(<<"<","/","d","i","v",">">>)
DIV_CLOSE_UPPER == W(<<"<","/","D","I","v"," ",">">>)
DIVS_OPEN == W(<<"<","d","i","v","s",">">>)

ClosingFrags ==
  {DIV_OPEN, DIV_OPEN_ID, DIV_CLOSE, DIV_CLOSE_UPPER, DIVS_OPEN, TEXT_X}

ClosingInit ==
  /\ fn = "find_closing_element"
  /\ \E frs \in SeqsUpTo(ClosingFrags, MaxNest) :
       /\ fn_text = DIV_OPEN \o Flatten(frs)
       /\ \E sectionEnd \in 0..Len(fn_text) :
            fn_arg = [called |-> FALSE, frags |-> <<DIV_OPEN>> \o frs,
                      sectionStart |-> 0, sectionEnd |-> sectionEnd,
                      elementTag |-> DIV]
  /\ fn_ret = NULLP

FindClosingElement ==
  /\ fn = "find_closing_element"
  /\ ~fn_arg.called
  /\ fn_ret' = find_closing_element(fn_text, fn_arg.sectionStart,
                                    fn_arg.sectionEnd, fn_arg.elementTag)
  /\ fn_arg' = [fn_arg EXCEPT !.called = TRUE]
  /\ UNCHANGED <<fn, fn_text, engine_vars, link_vars>>

\* The same call on an element that holds self-terminated elements of its
\* name: an opening tag of div followed by at most MaxNest fragments, the
\* section ending where the buffer does.
DIV_SELF == W(<<"<","d","i","v","/",">">>)
DIV_SPACE_SELF == W(<<"<","d","i","v"," ","/",">">>)
SelfTerminated == {DIV_SELF, DIV_SPACE_SELF}

SelfTerminatedFrags == SelfTerminated \cup {DIV_OPEN, DIV_CLOSE, TEXT_X}

SelfTerminatedInit ==
  /\ fn = "find_closing_element, self-terminated"
  /\ \E frs \in SeqsUpTo(SelfTerminatedFrags, MaxNest) :
       /\ fn_text = DIV_OPEN \o Flatten(frs)
       /\ fn_arg = [called |-> FALSE, frags |-> <<DIV_OPEN>> \o frs,
                    sectionStart |-> 0, sectionEnd |-> Len(fn_text),
                    elementTag |-> DIV]
  /\ fn_ret = NULLP

FindClosingElementSelfTerminated ==
  /\ fn = "find_closing_element, self-terminated"
  /\ ~fn_arg.called
  /\ fn_ret' = find_closing_element(fn_text, fn_arg.sectionStart,
                                    fn_arg.sectionEnd, fn_arg.elementTag)
  /\ fn_arg' = [fn_arg EXCEPT !.called = TRUE]
  /\ UNCHANGED <<fn, fn_text, engine_vars, link_vars>>

\* The arguments of html_url_format: a root url made of a protocol, a host,
\* at most MaxDirs directories and a file, and a path that goes up at most
\* MaxUp folders or is of one of the other kinds.
MaxDirs == 3
MaxUp == 5
UrlProtocols == {HTTP, FTP}
UrlHosts == {W(<<"a",".","c","o","m">>), W(<<"a">>)}
UrlDirs == {W(<<"x">>), W(<<"y","y">>)}
UrlFiles == {<< >>, W(<<"y",".","h","t","m","l">>)}
UrlRests == {<< >>, W(<<"z",".","h","t","m","l">>), W(<<"d","/","z">>)}
UrlOthers ==
  {W(<<"/","a","b","s",".","h","t","m","l">>),
   W(<<".","/","z",".","h","t","m","l">>),
   W(<<"z",".","h","t","m","l","#","t","o","p">>),
   W(<<"z"," ","z">>),
   W(<<"?","q","=","1">>),
   HTTP \o W(<<"b",".","c","o","m","/","q">>)}

\* Each directory followed by a slash.
RECURSIVE Folders(_)
Folders(dirs) ==
  IF dirs = << >> THEN << >>
  ELSE Head(dirs) \o <<47>> \o Folders(Tail(dirs))

RECURSIVE Ups(_)
Ups(n) == IF n = 0 THEN << >> ELSE UP \o Ups(n - 1)

UrlInit ==
  /\ fn = "html_url_format"
  /\ \E protocol \in UrlProtocols, host \in UrlHosts,
        dirs \in SeqsUpTo(UrlDirs, MaxDirs), file \in UrlFiles :
       /\ fn_ret = html_url_format(protocol \o host \o <<47>> \o Folders(dirs)
                                   \o file)
       /\ \/ \E n \in 1..MaxUp, rest \in UrlRests :
               /\ fn_text = Ups(n) \o rest
               /\ fn_arg = [called |-> FALSE, protocol |-> protocol,
                            host |-> host, dirs |-> dirs, ups |-> n,
                            rest |-> rest]
          \/ \E path \in UrlOthers :
               /\ fn_text = path
               /\ fn_arg = [called |-> FALSE, protocol |-> protocol,
                            host |-> host, dirs |-> dirs, ups |-> 0,
                            rest |-> path]

\* html_url_format::operator() on a path of its own length that is no image.
FormatUrl ==
  /\ fn = "html_url_format"
  /\ ~fn_arg.called
  /\ fn_ret' = url_format(fn_ret, fn_text, FALSE, Len(fn_text), FALSE)
  /\ fn_arg' = [fn_arg EXCEPT !.called = TRUE]
  /\ UNCHANGED <<fn, fn_text, engine_vars, link_vars>>

\* stristr_not_quoted on every text of at most MaxText letters and quotes,
\* for every needle of at most MaxNeedle letters.
MaxText == 4
MaxNeedle == 3
TextChars == {97, 65, 98, 34, 39}
NeedleChars == {97, 98}

StristrInit ==
  /\ fn = "stristr_not_quoted"
  /\ fn_text \in SeqsUpTo(TextChars, MaxText)
  /\ \E strSearch \in SeqsUpTo(NeedleChars, MaxNeedle) :
       /\ strSearch # << >>
       /\ fn_arg = [called |-> FALSE, strSearch |-> strSearch]
  /\ fn_ret = NULLP

\* html_extract_text::stristr_not_quoted on the whole text.
StristrNotQuoted ==
  /\ fn = "stristr_not_quoted"
  /\ ~fn_arg.called
  /\ fn_ret' = stristr_not_quoted(fn_text, 0, Len(fn_text), fn_arg.strSearch)
  /\ fn_arg' = [fn_arg EXCEPT !.called = TRUE]
  /\ UNCHANGED <<fn, fn_text, engine_vars, link_vars>>

\* find_close_tag on every element of at most MaxTag characters after its
\* '<', from the '<' and from the character after it.
MaxTag == 5
TagChars == {60, 62, 34, 39, 97}

CloseTagInit ==
  /\ fn = "find_close_tag"
  /\ \E body \in SeqsUpTo(TagChars, MaxTag) : fn_text = <<60>> \o body
  /\ \E text \in {0, 1} : fn_arg = [called |-> FALSE, text |-> text]
  /\ fn_ret = NULLP

\* html_extract_text::find_close_tag
FindCloseTag ==
  /\ fn = "find_close_tag"
  /\ ~fn_arg.called
  /\ fn_ret' = find_close_tag(fn_text, fn_arg.text)
  /\ fn_arg' = [fn_arg EXCEPT !.called = TRUE]
  /\ UNCHANGED <<fn, fn_text, engine_vars, link_vars>>

FnInit ==
  /\ corpus = "text"
  /\ EngineAtRest
  /\ LinksAtRest
  /\ \/ ClosingInit
     \/ SelfTerminatedInit
     \/ UrlInit
     \/ StristrInit
     \/ CloseTagInit

FnNext ==
  \/ FindClosingElement
  \/ FindClosingElementSelfTerminated
  \/ FormatUrl
  \/ StristrNotQuoted
  \/ FindCloseTag

FnSpec == FnInit /\ [][FnNext]_vars

\* The character that a named entity of the documents stands for: the one of
\* its name as written when the table has it, otherwise the one of its name
\* in small letters, otherwise a question mark.
EntityCharacter(f) ==
  CASE f = ENT_DAGGER -> <<8224>>
    [] f = ENT_DAGGER_CAPITAL -> <<8225>>
    [] f = ENT_DAGGER_UPPER -> <<8224>>
    [] f = ENT_AMP_UPPER -> <<38>>
    [] f \in {ENT_UNKNOWN, ENT_UNKNOWN_UPPER} -> <<63>>
    [] f = TEXT_A -> f
    [] f = B_OPEN -> << >>

\* The sequences of fragments that a document of named entities is made of.
EntitiesOf(doc) ==
  {frs \in SeqsUpTo(Frags("entity"), MaxFrags) : Flatten(frs) = doc}

\* The entities of frs that the table does not have.
UnknownIn(frs) ==
  {i \in DOMAIN frs : frs[i] \in {ENT_UNKNOWN, ENT_UNKNOWN_UPPER}}

\* C13: a named entity that ends with a semicolon is looked up by its name as
\* written and then by its name in small letters; one found by neither
\* lookup gives one question mark in the output and one message in the log,
\* and the text after it is extracted as usual.
C13_NamedEntitiesDecode ==
  (corpus = "entity" /\ pc = "done" /\ ~html_null
   /\ text_length = Len(html_text)) =>
    \A frs \in EntitiesOf(html_text) :
      /\ m_filtered_text = Flatten([i \in DOMAIN frs |-> EntityCharacter(frs[i])])
      /\ Len(m_log) = Cardinality(UnknownIn(frs))
      /\ \A i \in DOMAIN m_log : m_log[i].kind = "Unknown HTML entity"

\* An unknown entity, then an entity whose name differs from another one by
\* its case only, were decoded.
C13_Reached ==
  /\ corpus = "entity"
  /\ pc = "done"
  /\ html_text = ENT_UNKNOWN \o ENT_DAGGER_CAPITAL \o ENT_DAGGER
  /\ text_length = Len(html_text)
  /\ m_filtered_text = <<63, 8225, 8224>>
  /\ Len(m_log) = 1

\* The code point that a numeric reference of the documents names.
CodePointOf(f) ==
  CASE f \in {NUM_A, NUM_A_HEX} -> 65
    [] f = NUM_E_ACUTE -> 233
    [] f \in {NUM_SHY, NUM_SHY_HEX} -> 173
    [] f \in {NUM_ZERO, NUM_ZERO_HEX} -> 0
    [] f = NUM_FF -> 64256
    [] f = NUM_FI -> 64257
    [] f = NUM_FL -> 64258
    [] f = NUM_FFI -> 64259
    [] f = NUM_FFL -> 64260
    [] f = NUM_FT -> 64261
    [] f = NUM_ST -> 64262

Ligature(c) ==
  CASE c = 64256 -> W(<<"f","f">>)
    [] c = 64257 -> W(<<"f","i">>)
    [] c = 64258 -> W(<<"f","l">>)
    [] c = 64259 -> W(<<"f","f","i">>)
    [] c = 64260 -> W(<<"f","f","l">>)
    [] c = 64261 -> W(<<"f","t">>)
    [] c = 64262 -> W(<<"s","t">>)

\* What a fragment of a document of numeric references gives; zero is what
\* the reference to code point 0 gives.
NumericText(f, zero) ==
  IF f = TEXT_A THEN f
  ELSE IF CodePointOf(f) = 173 THEN << >>
  ELSE IF CodePointOf(f) = 0 THEN zero
  ELSE IF CodePointOf(f) \in 64256..64262 THEN Ligature(CodePointOf(f))
  ELSE <<CodePointOf(f)>>

NumericsOf(doc) ==
  {frs \in SeqsUpTo(Frags("numeric"), MaxFrags) : Flatten(frs) = doc}

NumericCall ==
  corpus = "numeric" /\ pc = "done" /\ ~html_null
  /\ text_length = Len(html_text)

\* C14: a numeric character reference gives nothing for code point 173,
\* nothing for code point 0, the letters of the ligature for code points
\* 0xFB00 to 0xFB06 and one character of that code point for every other
\* value.
C14_NumericReferences ==
  NumericCall =>
    \A frs \in NumericsOf(html_text) :
      m_filtered_text =
        Flatten([i \in DOMAIN frs |-> NumericText(frs[i], << >>)])

\* C14, amended: a numeric character reference gives nothing for code point
\* 173, the letters of the ligature for code points 0xFB00 to 0xFB06 and one
\* character of that code point for every other value but 0; a reference to
\* code point 0 is copied to the output as it is written, and logged as an
\* invalid numeric entity.
C14_NumericReferencesKeepZero ==
  NumericCall =>
    \A frs \in NumericsOf(html_text) :
      /\ m_filtered_text =
           Flatten([i \in DOMAIN frs |-> NumericText(frs[i], frs[i])])
      /\ Len(m_log) =
           Cardinality({i \in DOMAIN frs :
                          frs[i] \in {NUM_ZERO, NUM_ZERO_HEX}})
      /\ \A i \in DOMAIN m_log : m_log[i].kind = "Invalid numeric HTML entity"

\* A reference to code point 0, a ligature and a soft hyphen were decoded.
C14_Reached ==
  /\ NumericCall
  /\ html_text = NUM_ZERO \o NUM_FI \o NUM_SHY
  /\ m_filtered_text = NUM_ZERO \o W(<<"f","i">>)
  /\ Len(m_log) = 1

\* ---- C20 ----
\* str without its placeholders: a placeholder runs from "${" to the first
\* '}' after it; a '$' that starts none is kept.
RECURSIVE WithoutPlaceholders(_)
WithoutPlaceholders(str) ==
  IF str = << >> THEN << >>
  ELSE IF /\ Len(str) >= 2 /\ str[1] = 36 /\ str[2] = 123
          /\ \E k \in 3..Len(str) : str[k] = 125
  THEN WithoutPlaceholders(
         SubSeq(str, First({k \in 3..Len(str) : str[k] = 125}) + 1, Len(str)))
  ELSE <<str[1]>> \o WithoutPlaceholders(Tail(str))

\* C20: the output of the raw-text decoder for a span is the span without its
\* placeholders, everything else kept once and in order.
C20_PlaceholdersRemoved ==
  (corpus = "dollar" /\ pc = "done") =>
     \A i \in RawSpans :
        SpanOut(spans[i]) = WithoutPlaceholders(SpanIn(spans[i]))

\* ---- C21 ----
\* The literal characters at the head of str: those before its first '&',
\* '$', carriage return or line feed.
LiteralHead(str) ==
  SubSeq(str, 1,
         FirstOr({k \in 1..Len(str) : str[k] \in {13, 10, 38, 36}},
                 Len(str) + 1) - 1)

\* str in the form that the depths of the span sp ask for.
Transliterated(sp, str) ==
  [k \in 1..Len(str) |-> IF sp.sup > 0 THEN to_superscript(str[k])
                         ELSE to_subscript(str[k])]

\* C21: the literal characters of a raw text span decoded at a superscript
\* depth above zero are in the output in their superscript form, those before
\* an entity or a '$' included; likewise the subscript form at a subscript
\* depth above zero and superscript depth zero.
C21_LiteralsTransliterated ==
  (corpus = "script" /\ pc = "done") =>
     \A i \in RawSpans :
        (spans[i].sup > 0 \/ spans[i].sub > 0) =>
           IsPrefix(Transliterated(spans[i], LiteralHead(SpanIn(spans[i]))),
                    SpanOut(spans[i]))

\* ---- C22 ----
\* The documents that are one pair of a pre, sup or sub element around one
\* fragment that is no tag of that pair.
Pairs == {<<PRE_OPEN, PRE_CLOSE>>, <<SUP_OPEN, SUP_CLOSE>>,
          <<SUB_OPEN, SUB_CLOSE>>}
Paired ==
  {pr[1] \o x \o pr[2] :
     pr \in Pairs,
     x \in {STRAY, CDATA_SECTION, B_UNTERMINATED, B_OPEN, TEXT_LF, << >>}}

\* C22: after the closing tag of a pre, sup or sub pair the depth counters are
\* what they were before its opening tag, whatever lies between the two.
C22_PairsRestoreDepth ==
  (corpus = "pair" /\ pc = "done" /\ ~html_null
     /\ text_length = Len(html_text) /\ html_text \in Paired) =>
     /\ m_is_in_preformatted_text_block_stack
          = (IF preserve_newlines THEN 1 ELSE 0)
     /\ m_superscript_stack = 0
     /\ m_subscript_stack = 0

(***************************************************************************)
\* ---- C23 ----
\* The characters that end the name of an entity that has no semicolon.
Terminators == {32, 9, 10, 13, 60}

\* The raw spans that start with "&amp" and a terminator.
BareSpans ==
  {i \in RawSpans :
     /\ spans[i].to - spans[i].from >= Len(ENT_AMP_NOSEMI)
     /\ Slice(html_text, spans[i].from, Len(ENT_AMP_NOSEMI)) = ENT_AMP_NOSEMI
     /\ At(html_text, spans[i].from + Len(ENT_AMP_NOSEMI)) \in Terminators}

\* The messages of the log about an entity without its semicolon.
MissingSemicolons ==
  {k \in DOMAIN m_log : m_log[k].kind = "Missing semicolon on HTML entity"}

FontElements ==
  {[tag |-> FONT_SYMBOL, name |-> "font", face |-> W(<<"S","y","m","b","o","l">>), family |-> << >>],
   [tag |-> FONT_X_SYMBOL, name |-> "font", face |-> W(<<"x"," ","S","y","m","b","o","l">>), family |-> << >>],
   [tag |-> I_FAMILY, name |-> "i", face |-> << >>, family |-> W(<<"S","y","m","b","o","l">>)],
   [tag |-> I_FACE, name |-> "i", face |-> W(<<"S","y","m","b","o","l">>), family |-> << >>],
   [tag |-> B_OPEN, name |-> "b", face |-> << >>, family |-> << >>]}

\* Does the value have "Symbol" in it, at any place?
HasSymbol(value) == Contains(value, W(<<"S","y","m","b","o","l">>))

\* Is the element one that the text after it is set in the Symbol font for?
InSymbolFont(el) ==
  \/ el.name = "font" /\ (HasSymbol(el.face) \/ HasSymbol(el.family))
  \/ el.name # "font" /\ HasSymbol(el.family)

\* The elements whose tag ends where the span sp starts.
ElementsBefore(sp) ==
  {el \in FontElements :
     /\ sp.from >= Len(el.tag)
     /\ Slice(html_text, sp.from - Len(el.tag), Len(el.tag)) = el.tag}

\* C24: the text after a font element whose face or font-family has Symbol in
\* it, or after another element whose font-family has Symbol in it, is written
\* with every character mapped by the table of the Symbol font; the text after
\* any other element is written as it is.
C24_SymbolFontRemapped ==
  (corpus = "font" /\ pc = "done" /\ ~html_null /\ text_length = Len(html_text)) =>
     \A i \in RawSpans : \A el \in ElementsBefore(spans[i]) :
        SpanOut(spans[i]) = IF InSymbolFont(el)
                            THEN convert_symbol_font_section(SpanIn(spans[i]))
                            ELSE SpanIn(spans[i])

\* ---- C25 ----
\* What a fragment of the documents of breaks gives: a newline for a br
\* element, two for an hr element, however the tag ends.
BreakText(f) ==
  CASE f \in {BR, BR_SPACE_SLASH, BR_SLASH} -> <<10>>
    [] f \in {HR, HR_SLASH} -> <<10, 10>>
    [] f = TEXT_A -> f

\* The sequences of fragments that a document of breaks is made of.
BreaksOf(doc) ==
  {frs \in SeqsUpTo(Frags("break"), MaxFrags) : Flatten(frs) = doc}

\* C25: the name of an element ends at the first white space, '>' or "/>":
\* <br>, <br /> and <br/> give one newline each, <hr/> gives the two newlines
\* that <hr> gives.
C25_SelfClosedBreaks ==
  (corpus = "break" /\ pc = "done" /\ ~html_null /\ text_length = Len(html_text)) =>
     \A frs \in BreaksOf(html_text) :
        m_filtered_text = Flatten([i \in DOMAIN frs |-> BreakText(frs[i])])

\* ---- C26 ----
\* A call, once made, runs on to its return: the code of a call is sequential.
RunsOn ==
  DispatchTag \/ NextTag \/ SymbolFontPop \/ SymbolFontPush \/ CloseTag \/ Return
FairSpec == Spec /\ WF_vars(RunsOn)

\* The places of a call inside the main loop.
InMainLoop == {"loop", "next", "symbol", "sympush", "close"}

\* A step inside the main loop never moves start back; the step that goes
\* round the loop by continue, and the step that finds the next tag, move it
\* forward.
MainLoopAdvances ==
  (pc \in InMainLoop /\ pc' \in InMainLoop) =>
     /\ start' >= start
     /\ ((pc = "loop" /\ pc' = "loop") \/ pc = "next") => start' > start

\* The while loop of parse_raw_text on n characters from t: every iteration
\* that does not break leaves fewer characters than it found.
RECURSIVE SpanShrinks(_, _, _, _)
SpanShrinksOn(r, s, n) == r.n < n /\ SpanShrinks(r.e, s, r.t, r.n)
SpanShrinks(e, s, t, n) ==
  \/ n = 0
  \/ strncspn(s, t, n, RawStops(e)) >= n
  \/ SpanShrinksOn(raw_iteration(e, s, t, n), s, n)

\* The engine as the decoder found it at the span sp, as far as the decoder's
\* way through the span depends on it.
EngineAt(sp) == [Engine EXCEPT !.pre = sp.pre, !.sup = sp.sup, !.sub = sp.sub]

DecoderShrinks ==
  \A i \in RawSpans :
     SpanShrinks(EngineAt(spans[i]), html_text, spans[i].from,
                 spans[i].to - spans[i].from)

\* C26: a call of the extraction returns whatever the document is: every pass
\* of the main loop stops or moves start forward, and every iteration of the
\* loop of the decoder stops or leaves a shorter span.
C26_ExtractTerminates ==
  /\ [][MainLoopAdvances]_vars
  /\ []DecoderShrinks
  /\ (pc = "loop") ~> (pc = "done")

\* A call on a stray '<', an unterminated tag and an unterminated comment
\* has returned.
C26_Reached ==
  /\ corpus = "skip"
  /\ pc = "done"
  /\ html_text = STRAY \o B_UNTERMINATED \o COMMENT_OPEN
  /\ text_length = Len(html_text)
  /\ result = "text"

\* ---- C27 ----
\* The spans of the input that were decoded or copied.
EmittedSpans == {i \in DOMAIN spans : spans[i].kind \in {"raw", "copy"}}

\* C27: no part of the input is emitted twice: no two of the spans that were
\* decoded or copied have a character of the input in common, and a span
\* without entities puts no more characters in the output than it holds.
C27_NothingEmittedTwice ==
  (corpus = "twice" /\ pc = "done" /\ ~html_null /\ text_length = Len(html_text)) =>
     /\ \A i, j \in EmittedSpans :
          i < j => (spans[i].to <= spans[j].from \/ spans[j].to <= spans[i].from)
     /\ \A i \in EmittedSpans : Len(SpanOut(spans[i])) <= Len(SpanIn(spans[i]))

\* ---- C28 ----
\* The buffers that hold what html_text holds before text_length.
SamePrefix ==
  {doc \in DocsPrefix :
     /\ Len(doc) >= text_length
     /\ SubSeq(doc, 1, text_length) = SubSeq(html_text, 1, text_length)}

\* What a call with the same arguments on the buffer doc gives: the output
\* and the metadata.
OutcomeOn(doc) ==
  Once(LAMBDA r : <<r.text, r.title, r.author, r.description, r.keywords,
                    r.subject>>,
       Extract(doc, text_length, include_outer_text, preserve_newlines))

\* C28: the output and the metadata of a call depend on the first
\* text_length characters of the buffer only: a buffer that differs from
\* html_text at text_length or after gives the same.
C28_OnlyThePrefixMatters ==
  (corpus = "prefix" /\ pc = "done" /\ ~html_null) =>
     \A doc \in SamePrefix :
        OutcomeOn(doc) = <<m_filtered_text, m_title, m_author, m_description,
                           m_keywords, m_subject>>

\* ---- C29 ----
\* The main loop is about to dispatch a title element that is closed: the end
\* of its opening tag and its closing tag are found.
TitleAtStart ==
  /\ pc = "loop"
  /\ start # NULLP /\ start < text_length
  /\ ElementKind(html_text, start, text_length,
                 get_element_name(html_text, start + 1, FALSE)) = "title"
  /\ find_close_tag(html_text, start) # NULLP
  /\ stristr(html_text, start, TITLE_CLOSE) # NULLP

\* C29: the span of a title element handed to the nested engine starts, just
\* after the '>' of the opening tag, at or before the closing tag found: its
\* length is never negative.
C29_TitleSpanWellFormed ==
  (corpus = "quote" /\ TitleAtStart) =>
     find_close_tag(html_text, start) + 1 <= stristr(html_text, start, TITLE_CLOSE)

\* The fragments of frs that are not self-terminated elements, in order.
NotSelfTerminated(f) == f \notin SelfTerminated
WithoutSelfTerminated(frs) == SelectSeq(frs, NotSelfTerminated)

\* The closing tag found in the buffer made of frs without its
\* self-terminated elements, as the number of the fragment of frs that it
\* is, 0 when none is found.
ClosingWithout(frs) ==
  LET kept == WithoutSelfTerminated(frs)
      ret == find_closing_element(Flatten(kept), 0, Len(Flatten(kept)), DIV)
      j == FirstOr({i \in 1..Len(kept) : Offset(kept, i) = ret}, 0)
  IN IF ret = NULLP THEN 0
     ELSE FirstOr({k \in 1..Len(frs) :
                     /\ NotSelfTerminated(frs[k])
                     /\ Len(WithoutSelfTerminated(SubSeq(frs, 1, k))) = j}, 0)

\* C30: a self-terminated element of the same name inside an element does
\* not change the nesting that find_closing_element counts: the closing tag
\* it returns is the one it returns when the self-terminated elements are
\* taken out of the buffer, and none when it returns none there.
C30_SelfTerminatedNotNested ==
  (fn = "find_closing_element, self-terminated" /\ fn_arg.called) =>
    LET k == ClosingWithout(fn_arg.frags)
    IN fn_ret = IF k = 0 THEN NULLP ELSE Offset(fn_arg.frags, k)

(* Calls of a hyperlink scanner                                            *)
(*                                                                         *)
(* A behaviour of LinkSpec is an html_hyperlink_parse constructed on a     *)
(* document and called again and again.                                    *)
(***************************************************************************)
MaxLinkFrags == 3
A_HREF == W(<<"<","a"," ","h","r","e","f","=","x",">">>)
IMG_SRC == W(<<"<","i","m","g"," ","s","r","c","=","i",".","p","n","g",">">>)
SCRIPT_SRC ==
  W(<<"<","s","c","r","i","p","t"," ","s","r","c","=","s",".","j","s",">">>)
JS_LINK == W(<<"\"","a","b",".","h","t","m","\"">>)
JS_SHORT == W(<<"\"","a","\"">>)
META_REFRESH ==
  W(<<"<","m","e","t","a"," ","h","t","t","p","-","e","q","u","i","v","=",
      "r","e","f","r","e","s","h"," ","c","o","n","t","e","n","t","=",
      "'","0",";","u","r","l","=","r","'",">">>)

LinkFrags ==
  {SCRIPT_OPEN, SCRIPT_CLOSE, SCRIPT_SRC, A_HREF, IMG_SRC, JS_LINK, JS_SHORT,
   META_REFRESH}

LinkDocs == DocsUpTo(LinkFrags, MaxLinkFrags)

LinkInit ==
  /\ corpus = "text"
  /\ EngineAtRest
  /\ FnAtRest
  /\ link_text \in LinkDocs
  /\ \E include_image_links \in BOOLEAN :
       link_parse = html_hyperlink_parse(link_text, FALSE, Len(link_text),
                                         include_image_links)
  /\ link_yield = << >>

\* html_hyperlink_parse::operator()
GetNextLink ==
  /\ link_parse' = hyperlink_next(link_parse, link_text)
  /\ link_yield' =
       IF link_parse'.ret # NULLP
       THEN Append(link_yield, [at |-> link_parse'.ret, by |-> link_parse'.by])
       ELSE link_yield
  /\ UNCHANGED <<link_text, engine_vars, fn_vars>>

LinkNext ==
  \/ GetNextLink

LinkSpec == LinkInit /\ [][LinkNext]_vars

\* The calls go on for ever.
LinkFairSpec == LinkSpec /\ WF_vars(GetNextLink)

(***************************************************************************)
(* Properties of the static functions                                      *)
(***************************************************************************)
\* +1 for an opening tag of div, -1 for a closing tag of div, 0 otherwise.
Nesting(f) ==
  IF f \in {DIV_OPEN, DIV_OPEN_ID} THEN 1
  ELSE IF f \in {DIV_CLOSE, DIV_CLOSE_UPPER} THEN 0 - 1
  ELSE 0

\* The number of div elements open after fragment k of frs.
RECURSIVE DepthAfter(_, _)
DepthAfter(frs, k) ==
  IF k = 0 THEN 0 ELSE DepthAfter(frs, k - 1) + Nesting(frs[k])

\* The fragment that closes the element opened by the first one, 0 when
\* none does.
BalancingClose(frs) ==
  FirstOr({k \in 2..Len(frs) : DepthAfter(frs, k) = 0}, 0)

\* The deepest nesting before fragment k.
DeepestBefore(frs, k) ==
  Last({DepthAfter(frs, j) : j \in 1..(k - 1)})

\* C11: find_closing_element, started on the opening tag of an element,
\* returns the position of the '<' of the closing tag that balances it,
\* whatever the nesting of elements of the same name in between, and
\* returns not found when no balancing closing tag occurs before the end of
\* the section (a closing tag occurs before the end when its "</" and its
\* name do).
C11_ClosingElementBalances ==
  (fn = "find_closing_element" /\ fn_arg.called) =>
    LET k == BalancingClose(fn_arg.frags)
        p == Offset(fn_arg.frags, k)
    IN fn_ret = IF k # 0 /\ p + 2 + Len(fn_arg.elementTag) <= fn_arg.sectionEnd
                THEN p ELSE NULLP

\* An outer closing tag found past a nested element of the same name.
C11_Reached ==
  /\ fn = "find_closing_element"
  /\ fn_arg.called
  /\ BalancingClose(fn_arg.frags) # 0
  /\ DeepestBefore(fn_arg.frags, BalancingClose(fn_arg.frags)) >= 2
  /\ fn_ret = Offset(fn_arg.frags, BalancingClose(fn_arg.frags))

\* C12: a path that starts with n >= 1 "../" resolved against the root
\* protocol://host/d1/.../dk/file is the root cut back by min(n, k)
\* directories followed by the rest of the path, so it begins with
\* protocol://host/ however large n is.
C12_ParentPathIsClamped ==
  (fn = "html_url_format" /\ fn_arg.called /\ fn_arg.ups >= 1) =>
    fn_ret.ret =
      fn_arg.protocol \o fn_arg.host \o <<47>>
      \o Folders(SubSeq(fn_arg.dirs, 1,
                        Len(fn_arg.dirs) - Smaller(fn_arg.ups,
                                                   Len(fn_arg.dirs))))
      \o fn_arg.rest

\* A path with more "../" than the root has directories was resolved.
C12_Reached ==
  /\ fn = "html_url_format"
  /\ fn_arg.called
  /\ fn_arg.dirs # << >>
  /\ fn_arg.ups > Len(fn_arg.dirs)
  /\ fn_ret.ret = fn_arg.protocol \o fn_arg.host \o <<47>> \o fn_arg.rest


(***************************************************************************)
(* Properties of the hyperlink scanner                                     *)
(***************************************************************************)
\* The offsets of the <script elements of a buffer.
ScriptOpenings(s) ==
  {i \in 0..(Len(s) - 1) :
     /\ StartsWith(ToLower(s), i, W(<<"<","s","c","r","i","p","t">>))
     /\ At(s, i + 7) \in {32, 62}}

\* Offset p lies in the body of a script element: after the '>' of its
\* opening tag and before its </script>.
InScriptBody(s, p) ==
  \E i \in ScriptOpenings(s) :
    /\ wcschr(s, i, 62) # NULLP
    /\ wcschr(s, i, 62) < p
    /\ stristr(s, wcschr(s, i, 62),
               W(<<"<","/","s","c","r","i","p","t",">">>)) # NULLP
    /\ p < stristr(s, wcschr(s, i, 62),
                   W(<<"<","/","s","c","r","i","p","t",">">>))

\* C15: the tag scanner never yields a link taken from the body of a script
\* element; the links it yields after the string-literal scanner is done lie
\* past the </script>.
C15_TagScannerSkipsScriptBodies ==
  (link_parse.by = "tags") => ~InScriptBody(link_text, link_parse.ret)

\* The last call returned absent.
Absent == link_parse.by = "none"

\* C16: the calls return absent after finitely many of them, and every call
\* after one that returned absent returns absent.
C16_CallsEndAbsent ==
  /\ <>[]Absent
  /\ [][Absent => Absent']_vars

\* The scanner is absent after a link of the tag scanner and a link of the
\* string-literal scanner.
C16_Reached ==
  /\ Absent
  /\ \E k \in 1..Len(link_yield) : link_yield[k].by = "tags"
  /\ \E k \in 1..Len(link_yield) : link_yield[k].by = "script"


(***************************************************************************)
(* Properties of the quote-aware searches                                  *)
(***************************************************************************)
NoQuotes(s) == \A i \in 1..Len(s) : s[i] \notin {34, 39}

\* The first case-insensitive occurrence of lit in the whole of s.
FirstOccurrence(s, lit) ==
  FirstOr({q \in 0..(Len(s) - Len(lit)) : StartsWithI(s, q, lit)}, NULLP)

\* C17: on a text without quote characters stristr_not_quoted returns the
\* first case-insensitive occurrence of the needle, one that starts inside a
\* partially matched prefix included.
C17_FirstOccurrenceWithoutQuotes ==
  (fn = "stristr_not_quoted" /\ fn_arg.called /\ NoQuotes(fn_text))
    => fn_ret = FirstOccurrence(fn_text, fn_arg.strSearch)

\* strchr_not_quoted, lines 94-113: the quote flags after the first n
\* characters of s, every character counted once.
RECURSIVE QuoteState(_, _)
QuoteState(s, n) ==
  IF n = 0 THEN [q |-> FALSE, sq |-> FALSE]
  ELSE [q |-> QuotesAfter(s[n], s[n], QuoteState(s, n - 1).q,
                          QuoteState(s, n - 1).sq),
        sq |-> SingleQuotesAfter(s[n], s[n], QuoteState(s, n - 1).q,
                                 QuoteState(s, n - 1).sq)]

\* C18: stristr_not_quoted never returns a position inside a quoted region,
\* the region being the one that the rule of strchr_not_quoted gives when it
\* is applied to every character up to that position.
C18_MatchOutsideQuotes ==
  (fn = "stristr_not_quoted" /\ fn_arg.called /\ fn_ret # NULLP)
    => ~QuoteState(fn_text, fn_ret + 1).q

(***************************************************************************)
(* Properties of find_close_tag                                            *)
(***************************************************************************)
\* The quoted region after the character c: a quote opens a region of its
\* kind outside every region, a double quote ends either region, a single
\* quote ends the single-quoted one only.
RegionAfter(region, c) ==
  CASE region = "none" /\ c = 34 -> "double"
    [] region = "none" /\ c = 39 -> "single"
    [] region = "double" /\ c = 34 -> "none"
    [] region = "single" /\ c \in {34, 39} -> "none"
    [] OTHER -> region

\* The first '>' from offset p on that is outside every region and at depth
\* 0, the depth one more after a '<' outside every region and one less after
\* a '>' outside every region at a depth above 0.
RECURSIVE FirstCloseAtDepthZero(_, _, _, _)
FirstCloseAtDepthZero(s, p, region, depth) ==
  IF p >= Len(s) THEN NULLP
  ELSE IF region = "none" /\ s[p + 1] = 62 /\ depth = 0 THEN p
  ELSE FirstCloseAtDepthZero(
         s, p + 1, RegionAfter(region, s[p + 1]),
         IF region = "none" /\ s[p + 1] = 60 THEN depth + 1
         ELSE IF region = "none" /\ s[p + 1] = 62 THEN depth - 1
         ELSE depth)

\* The character after the opening '<' for a position that is at an opening
\* '<' or just after one.
AfterOpening(s, text) == IF At(s, text) = 60 THEN text + 1 ELSE text

\* C19: find_close_tag, from the opening '<' or from the character after it,
\* returns the first '>' outside every quoted region at depth 0, and null when
\* the buffer ends before one.
C19_CloseTagOutsideQuotesAtDepthZero ==
  (fn = "find_close_tag" /\ fn_arg.called)
    => fn_ret = FirstCloseAtDepthZero(
                  fn_text, AfterOpening(fn_text, fn_arg.text), "none", 0)

\* The '>' returned follows a '>' in a double-quoted region that holds a
\* single quote, a single-quoted region that a double quote ended, or a
\* nested '<' and its '>'.
C19_Reached ==
  /\ fn = "find_close_tag"
  /\ fn_arg.called
  /\ fn_ret = 5
  /\ fn_text \in {W(<<"<","\"","'",">","\"",">">>),
                  W(<<"<","'","\"","<",">",">">>)}

=============================================================================
